---- MODULE Spec2Model ----
(***************************************************************************)
(* Tick-based civilization simulator: the world grid (world.py, cell.py),  *)
(* the civilization state machine (civilization.py), the random events     *)
(* (events.py) and the orchestrator (simulation.py).                       *)
(*                                                                         *)
(* A tick is modelled as the sequence of steps Simulation.tick performs:   *)
(* resources, then one step per civilization (nearby, update_state,        *)
(* execute_action), then one step per event of the roster, then one        *)
(* population step per civilization, then advance_day.  pc and idx hold    *)
(* the position inside the tick.  Every random draw of the code is an      *)
(* existentially quantified input of the step that makes it.               *)
(*                                                                         *)
(* int(n * 0.1), int(n * 0.02), int(n * 0.01), int(n * 0.002) equal        *)
(* n \div 10, n \div 50, n \div 100, n \div 500 for every n in 0..20000,   *)
(* and food / population compared with 20, 50, 150, 0.3, 2.0 equals the    *)
(* cross-multiplied integer comparison (checked on the Python floats).     *)
(***************************************************************************)
EXTENDS Integers, Sequences, FiniteSets, TLC

VARIABLES
    width,          \* World.width
    height,         \* World.height
    terrain,        \* Cell.terrain, per coordinate
    max_food,       \* Cell.max_food, per coordinate
    food_resource,  \* Cell.food_resource, per coordinate
    owner,          \* Cell.owner, per coordinate ("none" for None)
    current_day,    \* World.current_day
    current_year,   \* World.current_year
    civilizations,  \* Simulation.civilizations, a list of Civilization objects
    pc,             \* position inside Simulation.tick ("ready": between ticks)
    idx,            \* loop index of the running phase of the tick
    fired,          \* number of random events that have triggered so far
    chronicle,      \* Chronicle: the lengths of events and of major_events
    start_x,        \* add_civilization: start_x of the call in progress,
                    \* <<>> for None and <<x>> for the integer x
    start_y,        \* add_civilization: start_y, likewise
    attempts,       \* add_civilization: attempts of the search in progress
    raised,         \* the exception the last add_civilization call raised
    running,        \* Simulation.running
    run_pc,         \* position inside Simulation.run ("none": not called)
    run_days,       \* run: the days argument
    run_day,        \* run: the loop variable of for day in range(days)
    start_tick      \* run: the local start_tick

vars == <<width, height, terrain, max_food, food_resource, owner,
          current_day, current_year, civilizations, pc, idx, fired,
          chronicle, start_x, start_y, attempts, raised,
          running, run_pc, run_days, run_day, start_tick>>

world_vars == <<width, height, terrain, max_food>>

\* the locals of add_civilization and what it signals to its caller
search_vars == <<start_x, start_y, attempts, raised>>

\* the running flag and the frame of Simulation.run
run_vars == <<running, run_pc, run_days, run_day, start_tick>>

-----------------------------------------------------------------------------
(* Bounds of the model *)

MaxTicks == 2

MaxCivs == 3

MaxEvents == 1

MaxClockDays == 800

\* the day at which the ticks of the regeneration specification stop
MaxRegenDay == 100

\* the ticks of the first-contact specification
MaxContactTicks == 5

(* Program constants *)

FOOD_STARVING == 20

FOOD_LOW == 50

FOOD_EXCESS == 150

MORALE_CRITICAL == 10

POPULATION_MIN == 10

DAYS_PER_YEAR == 365

TERRITORY_LIMIT == 30

EXPANSION_COST == 10

-----------------------------------------------------------------------------
(* Small helpers *)

Min(a, b) == IF a < b THEN a ELSE b

Max(a, b) == IF a > b THEN a ELSE b

Abs(a) == IF a < 0 THEN 0 - a ELSE a

None == "none"

Names == <<"A", "B", "C", "D", "E">>

-----------------------------------------------------------------------------
(* Chronicle: the model keeps the lengths of its two lists *)

log_event(ch) == [ch EXCEPT !.events = @ + 1]

log_major_event(ch) == [ch EXCEPT !.major_events = @ + 1]

-----------------------------------------------------------------------------
(* Cell and World *)

Coords == (0 .. width - 1) \X (0 .. height - 1)

\* World.get_cell: a coordinate outside the grid yields None
InGrid(c) == c[1] >= 0 /\ c[1] < width /\ c[2] >= 0 /\ c[2] < height

is_passable(c) == terrain[c] \notin {"water", "mountain"}

\* the order of the dx, dy loops of World.get_neighbors
NeighborOffsets ==
    << <<-1, -1>>, <<-1, 0>>, <<-1, 1>>, <<0, -1>>,
       <<0, 1>>, <<1, -1>>, <<1, 0>>, <<1, 1>> >>

get_neighbors(c) ==
    LET all == [k \in 1 .. 8 |-> <<c[1] + NeighborOffsets[k][1],
                                   c[2] + NeighborOffsets[k][2]>>]
        InGridTest(n) == InGrid(n)
    IN  SelectSeq(all, InGridTest)

get_passable_neighbors(c) ==
    LET PassTest(n) == is_passable(n)
    IN  SelectSeq(get_neighbors(c), PassTest)

\* get_season_modifier whose autumn slope is one degree per 5 days
get_season_modifier_steep_autumn(day) ==
    LET day_of_year == day % DAYS_PER_YEAR
    IN  IF day_of_year < 91 THEN -15 + (day_of_year \div 6)
        ELSE IF day_of_year < 182 THEN (day_of_year - 91) \div 6
        ELSE IF day_of_year < 273 THEN 15 - ((day_of_year - 182) \div 6)
        ELSE 0 - ((day_of_year - 273) \div 5)

get_season_modifier(day) ==
    LET day_of_year == day % DAYS_PER_YEAR
    IN  IF day_of_year < 91 THEN -15 + (day_of_year \div 6)
        ELSE IF day_of_year < 182 THEN (day_of_year - 91) \div 6
        ELSE IF day_of_year < 273 THEN 15 - ((day_of_year - 182) \div 6)
        ELSE 0 - ((day_of_year - 273) \div 6)

\* regenerate_food without the cap at max_food
regenerate_food_uncapped(c, fr, divisor) ==
    IF terrain[c] # "water"
    THEN fr[c] + (max_food[c] \div divisor)
    ELSE fr[c]

\* Cell.regenerate_food with rate 0.1 (divisor 10) or 0.02 (divisor 50)
regenerate_food(c, fr, divisor) ==
    IF terrain[c] # "water"
    THEN Min(max_food[c], fr[c] + (max_food[c] \div divisor))
    ELSE fr[c]

update_resources(fr) ==
    LET season_modifier == get_season_modifier(current_day)
        divisor == IF season_modifier > -10 THEN 10 ELSE 50
    IN  [c \in Coords |-> regenerate_food(c, fr, divisor)]

\* advance_day that tests the day for the year's end before incrementing it
advance_day_test_before_increment(d, y) ==
    <<d + 1, IF d % DAYS_PER_YEAR = 0 THEN y + 1 ELSE y>>

\* World.advance_day: the day and the year after it
advance_day(d, y) ==
    LET d1 == d + 1
    IN  <<d1, IF d1 % DAYS_PER_YEAR = 0 THEN y + 1 ELSE y>>

\* harvest_food that reports the amount asked for, whatever the stock
harvest_food_full_amount(stock, amount) == amount

\* Cell.harvest_food: the amount actually removed
harvest_food(stock, amount) == Min(amount, stock)

-----------------------------------------------------------------------------
(* Civilization *)

Personalities == {"aggressive", "peaceful", "isolationist", "expansionist", "trading"}

\* the dx, dy loops of _claim_starting_territory
StartOffsets ==
    << <<-1, -1>>, <<-1, 0>>, <<-1, 1>>, <<0, -1>>, <<0, 0>>,
       <<0, 1>>, <<1, -1>>, <<1, 0>>, <<1, 1>> >>

\* claim_starting_territory without the test of is_passable
claim_starting_territory_any_terrain(start, own) ==
    LET all == [k \in 1 .. 9 |-> <<start[1] + StartOffsets[k][1],
                                   start[2] + StartOffsets[k][2]>>]
        Claimable(c) == InGrid(c) /\ own[c] = None
    IN  SelectSeq(all, Claimable)

claim_starting_territory(start, own) ==
    LET all == [k \in 1 .. 9 |-> <<start[1] + StartOffsets[k][1],
                                   start[2] + StartOffsets[k][2]>>]
        Claimable(c) == InGrid(c) /\ is_passable(c) /\ own[c] = None
    IN  SelectSeq(all, Claimable)

SeqToSet(s) == {s[k] : k \in 1 .. Len(s)}

\* Civilization.__init__: population, morale and personality are the draws
NewCivilization(name, start, population, morale, personality, own) ==
    [name |-> name,
     population |-> population,
     food |-> 200,
     morale |-> morale,
     tech_level |-> 1,
     state |-> "idle",
     personality |-> personality,
     capital |-> start,
     territory |-> claim_starting_territory(start, own),
     relations |-> [n \in {} |-> 0],
     is_alive |-> TRUE,
     death_cause |-> None]

\* the cells' owners after _claim_starting_territory
OwnerAfterFounding(name, start, own) ==
    LET claimed == SeqToSet(claim_starting_territory(start, own))
    IN  [c \in DOMAIN own |-> IF c \in claimed THEN name ELSE own[c]]

\* food / population < k, with get_food_per_capita = 0 for population 0
FpcBelow(c, k) == IF c.population = 0 THEN 0 < k ELSE c.food < k * c.population

FpcAbove(c, k) == IF c.population = 0 THEN 0 > k ELSE c.food > k * c.population

-----------------------------------------------------------------------------
(* Simulation.get_nearby_civilizations: the indices, in list order, of the  *)
(* other live civilizations owning a neighbor of a cell of cs[i].territory  *)

\* get_nearby_civilizations that looks around the capital only
get_nearby_civilizations_of_capital(i, cs, own) ==
    LET Adjacent(j) ==
            \E n \in SeqToSet(get_neighbors(cs[i].capital)) : own[n] = cs[j].name
        IsNear(j) == cs[j].name # cs[i].name /\ cs[j].is_alive /\ Adjacent(j)
    IN  SelectSeq([j \in 1 .. Len(cs) |-> j], IsNear)

\* get_nearby_civilizations without the test of other.is_alive
get_nearby_civilizations_any(i, cs, own) ==
    LET terr == cs[i].territory
        Adjacent(j) ==
            \E k \in 1 .. Len(terr) :
                \E n \in SeqToSet(get_neighbors(terr[k])) : own[n] = cs[j].name
        IsNear(j) == cs[j].name # cs[i].name /\ Adjacent(j)
    IN  SelectSeq([j \in 1 .. Len(cs) |-> j], IsNear)

get_nearby_civilizations(i, cs, own) ==
    LET terr == cs[i].territory
        Adjacent(j) ==
            \E k \in 1 .. Len(terr) :
                \E n \in SeqToSet(get_neighbors(terr[k])) : own[n] = cs[j].name
        IsNear(j) == cs[j].name # cs[i].name /\ cs[j].is_alive /\ Adjacent(j)
    IN  SelectSeq([j \in 1 .. Len(cs) |-> j], IsNear)

\* update_state whose diplomacy rule ignores the prior state
update_state_sticky_diplomacy(c, nearby, cs, expand_draw) ==
    IF ~c.is_alive THEN c.state
    ELSE IF c.food < FOOD_STARVING * c.population THEN "hunting"
    ELSE IF c.food < FOOD_LOW * c.population THEN "gathering"
    ELSE IF \E k \in 1 .. Len(nearby) : cs[nearby[k]].name \notin DOMAIN c.relations
         THEN "diplomacy"
    ELSE IF /\ c.food > FOOD_EXCESS * c.population
            /\ Len(c.territory) < TERRITORY_LIMIT
            /\ (c.personality \in {"expansionist", "aggressive"} \/ expand_draw)
         THEN "expanding"
    ELSE "idle"

\* update_state that tries the expansion rule before the food rules and
\* without the FOOD_EXCESS test
update_state_expand_first(c, nearby, cs, expand_draw) ==
    IF ~c.is_alive THEN c.state
    ELSE IF /\ Len(c.territory) < TERRITORY_LIMIT
            /\ (c.personality \in {"expansionist", "aggressive"} \/ expand_draw)
         THEN "expanding"
    ELSE IF FpcBelow(c, FOOD_STARVING) THEN "hunting"
    ELSE IF FpcBelow(c, FOOD_LOW) THEN "gathering"
    ELSE "idle"

\* update_state that goes to Defending next to a civilization it holds an
\* unfriendly relation (below 50) with
update_state_defends_unfriendly(c, nearby, cs, expand_draw) ==
    IF ~c.is_alive THEN c.state
    ELSE IF FpcBelow(c, FOOD_STARVING) THEN "hunting"
    ELSE IF FpcBelow(c, FOOD_LOW) THEN "gathering"
    ELSE IF /\ Len(nearby) > 0
            /\ c.state # "diplomacy"
            /\ \E k \in 1 .. Len(nearby) :
                   cs[nearby[k]].name \notin DOMAIN c.relations
         THEN "diplomacy"
    ELSE IF \E k \in 1 .. Len(nearby) :
               /\ cs[nearby[k]].name \in DOMAIN c.relations
               /\ c.relations[cs[nearby[k]].name] < 50
         THEN "defending"
    ELSE IF /\ FpcAbove(c, FOOD_EXCESS)
            /\ Len(c.territory) < TERRITORY_LIMIT
            /\ \/ c.personality \in {"expansionist", "aggressive"}
               \/ expand_draw
         THEN "expanding"
    ELSE "idle"

\* update_state without the test of the territory size
update_state_no_territory_limit(c, nearby, cs, expand_draw) ==
    IF ~c.is_alive THEN c.state
    ELSE IF FpcBelow(c, FOOD_STARVING) THEN "hunting"
    ELSE IF FpcBelow(c, FOOD_LOW) THEN "gathering"
    ELSE IF /\ Len(nearby) > 0
            /\ c.state # "diplomacy"
            /\ \E k \in 1 .. Len(nearby) :
                   cs[nearby[k]].name \notin DOMAIN c.relations
         THEN "diplomacy"
    ELSE IF /\ FpcAbove(c, FOOD_EXCESS)
            /\ \/ c.personality \in {"expansionist", "aggressive"}
               \/ expand_draw
         THEN "expanding"
    ELSE "idle"

\* update_state that goes to Diplomacy next to any civilization, with or
\* without a relation to it
update_state_diplomacy_any_neighbor(c, nearby, cs, expand_draw) ==
    IF ~c.is_alive THEN c.state
    ELSE IF FpcBelow(c, FOOD_STARVING) THEN "hunting"
    ELSE IF FpcBelow(c, FOOD_LOW) THEN "gathering"
    ELSE IF Len(nearby) > 0 /\ c.state # "diplomacy" THEN "diplomacy"
    ELSE IF /\ FpcAbove(c, FOOD_EXCESS)
            /\ Len(c.territory) < TERRITORY_LIMIT
            /\ \/ c.personality \in {"expansionist", "aggressive"}
               \/ expand_draw
         THEN "expanding"
    ELSE "idle"

(* Civilization.update_state: the new state; expand_draw is the outcome of  *)
(* random.random() < 0.3                                                    *)

update_state(c, nearby, cs, expand_draw) ==
    IF ~c.is_alive THEN c.state
    ELSE IF FpcBelow(c, FOOD_STARVING) THEN "hunting"
    ELSE IF FpcBelow(c, FOOD_LOW) THEN "gathering"
    ELSE IF /\ Len(nearby) > 0
            /\ c.state # "diplomacy"
            /\ \E k \in 1 .. Len(nearby) :
                   cs[nearby[k]].name \notin DOMAIN c.relations
         THEN "diplomacy"
    ELSE IF /\ FpcAbove(c, FOOD_EXCESS)
            /\ Len(c.territory) < TERRITORY_LIMIT
            /\ \/ c.personality \in {"expansionist", "aggressive"}
               \/ expand_draw
         THEN "expanding"
    ELSE "idle"

-----------------------------------------------------------------------------
(* The actions.  Each yields the civilizations list, the cells' food and   *)
(* the cells' owners after the action of civilization i.                   *)

action_idle(i, cs, fr, own) ==
    LET c == cs[i]
        food_consumed == Max(1, c.population \div 20)
        food == Max(0, c.food - food_consumed)
        morale == IF food > FOOD_LOW THEN Min(100, c.morale + 2)
                  ELSE Min(100, c.morale + 1)
    IN  [civs |-> [cs EXCEPT ![i].food = food, ![i].morale = morale],
         cells |-> fr, own |-> own]

\* the loop over self.territory of _action_hunt and _action_gather
RECURSIVE HarvestTerritory(_, _, _, _)
HarvestTerritory(terr, k, fr, amount) ==
    IF k > Len(terr) THEN [cells |-> fr, total |-> 0]
    ELSE LET harvested == harvest_food(fr[terr[k]], amount)
             rest == HarvestTerritory(terr, k + 1,
                                      [fr EXCEPT ![terr[k]] = @ - harvested],
                                      amount)
         IN  [cells |-> rest.cells, total |-> harvested + rest.total]

action_hunt(i, cs, fr, own) ==
    LET c == cs[i]
        h == HarvestTerritory(c.territory, 1, fr, 20)
        food_consumed == Max(1, c.population \div 30)
        food == Max(0, c.food + h.total - food_consumed)
        morale == IF h.total > 0 THEN Min(100, c.morale + 1) ELSE c.morale
    IN  [civs |-> [cs EXCEPT ![i].food = food, ![i].morale = morale],
         cells |-> h.cells, own |-> own]

action_gather(i, cs, fr, own) ==
    LET c == cs[i]
        h == HarvestTerritory(c.territory, 1, fr, 12)
        food_consumed == Max(1, c.population \div 25)
        food == Max(0, c.food + h.total - food_consumed)
        morale == IF h.total > 0 THEN Min(100, c.morale + 1) ELSE c.morale
    IN  [civs |-> [cs EXCEPT ![i].food = food, ![i].morale = morale],
         cells |-> h.cells, own |-> own]

\* ExpandScan without the owner test: the first passable neighbor is taken
ExpandScanAnyOwner(terr, k, own) ==
    LET near == get_passable_neighbors(terr[1])
    IN  IF near # <<>> THEN <<Head(near)>> ELSE <<>>

\* the scan of _action_expand: the first unowned passable neighbor, in
\* territory order then neighbor-list order; <<>> when there is none
RECURSIVE ExpandScan(_, _, _)
ExpandScan(terr, k, own) ==
    IF k > Len(terr) THEN <<>>
    ELSE LET Unowned(n) == own[n] = None
             free == SelectSeq(get_passable_neighbors(terr[k]), Unowned)
         IN  IF free # <<>> THEN <<Head(free)>>
             ELSE ExpandScan(terr, k + 1, own)

\* action_expand that scans the territory from its last cell
action_expand_from_last(i, cs, fr, own) ==
    LET c == cs[i]
        Reverse(t) == [k \in 1 .. Len(t) |-> t[Len(t) + 1 - k]]
        found == ExpandScan(Reverse(c.territory), 1, own)
    IN  IF found = <<>>
        THEN [civs |-> cs, cells |-> fr, own |-> own]
        ELSE [civs |-> [cs EXCEPT ![i].territory = Append(@, found[1]),
                                  ![i].food = @ - EXPANSION_COST],
              cells |-> fr,
              own |-> [own EXCEPT ![found[1]] = c.name]]

\* action_expand that appends the coordinate but leaves the cell's owner unset
action_expand_no_owner(i, cs, fr, own) ==
    LET found == ExpandScan(cs[i].territory, 1, own)
    IN  IF found = <<>>
        THEN [civs |-> cs, cells |-> fr, own |-> own]
        ELSE [civs |-> [cs EXCEPT ![i].territory = Append(@, found[1]),
                                  ![i].food = @ - EXPANSION_COST],
              cells |-> fr, own |-> own]

action_expand(i, cs, fr, own) ==
    LET c == cs[i]
        found == ExpandScan(c.territory, 1, own)
    IN  IF found = <<>>
        THEN [civs |-> cs, cells |-> fr, own |-> own]
        ELSE [civs |-> [cs EXCEPT ![i].territory = Append(@, found[1]),
                                  ![i].food = @ - EXPANSION_COST],
              cells |-> fr,
              own |-> [own EXCEPT ![found[1]] = c.name]]

\* the compatibility table of _calculate_initial_relations
Compatibility(p, q) ==
    CASE p = "peaceful" /\ q = "peaceful" -> <<30>>
      [] p = "peaceful" /\ q = "trading" -> <<25>>
      [] p = "trading" /\ q = "trading" -> <<20>>
      [] p = "aggressive" /\ q = "aggressive" -> <<-30>>
      [] p = "aggressive" /\ q = "peaceful" -> <<-10>>
      [] p = "expansionist" /\ q = "expansionist" -> <<-20>>
      [] p = "isolationist" /\ q = "isolationist" -> <<10>>
      [] OTHER -> <<>>

\* random_factor is the draw random.randint(-15, 15)
calculate_initial_relations(self, other, random_factor) ==
    LET pair == Compatibility(self.personality, other.personality)
        reverse_pair == Compatibility(other.personality, self.personality)
        modifier == IF pair # <<>> THEN pair[1]
                    ELSE IF reverse_pair # <<>> THEN reverse_pair[1]
                    ELSE 0
        base_score == 50 + modifier + random_factor
    IN  Max(0, Min(100, base_score))

\* action_diplomacy that records the score on its own side only
action_diplomacy_one_sided(i, cs, fr, own, nearby, random_factor) ==
    LET c == cs[i]
        NoRelation(j) == cs[j].name \notin DOMAIN c.relations
        fresh == SelectSeq(nearby, NoRelation)
    IN  IF fresh = <<>>
        THEN [civs |-> [cs EXCEPT ![i].state = "idle"], cells |-> fr, own |-> own]
        ELSE LET j == Head(fresh)
                 relation_score == calculate_initial_relations(c, cs[j], random_factor)
             IN  [civs |-> [cs EXCEPT
                              ![i].relations = (cs[j].name :> relation_score) @@ @],
                  cells |-> fr, own |-> own]

\* action_diplomacy that looks at the first nearby civilization only
action_diplomacy_first_neighbor_only(i, cs, fr, own, nearby, random_factor) ==
    LET c == cs[i]
        NoRelation(j) == cs[j].name \notin DOMAIN c.relations
        fresh == IF nearby = <<>> THEN <<>> ELSE SelectSeq(<<Head(nearby)>>, NoRelation)
    IN  IF fresh = <<>>
        THEN [civs |-> [cs EXCEPT ![i].state = "idle"], cells |-> fr, own |-> own]
        ELSE LET j == Head(fresh)
                 relation_score == calculate_initial_relations(c, cs[j], random_factor)
             IN  [civs |-> [cs EXCEPT
                              ![i].relations = (cs[j].name :> relation_score) @@ @,
                              ![j].relations = (c.name :> relation_score) @@ @],
                  cells |-> fr, own |-> own]

action_diplomacy(i, cs, fr, own, nearby, random_factor) ==
    LET c == cs[i]
        NoRelation(j) == cs[j].name \notin DOMAIN c.relations
        fresh == SelectSeq(nearby, NoRelation)
    IN  IF fresh = <<>>
        THEN [civs |-> [cs EXCEPT ![i].state = "idle"], cells |-> fr, own |-> own]
        ELSE LET j == Head(fresh)
                 relation_score == calculate_initial_relations(c, cs[j], random_factor)
             IN  [civs |-> [cs EXCEPT
                              ![i].relations = (cs[j].name :> relation_score) @@ @,
                              ![j].relations = (c.name :> relation_score) @@ @],
                  cells |-> fr, own |-> own]

action_defend(i, cs, fr, own) ==
    [civs |-> [cs EXCEPT ![i].morale = Max(0, @ - 2)], cells |-> fr, own |-> own]

execute_action(i, cs, fr, own, nearby, random_factor) ==
    IF ~cs[i].is_alive THEN [civs |-> cs, cells |-> fr, own |-> own]
    ELSE CASE cs[i].state = "idle" -> action_idle(i, cs, fr, own)
           [] cs[i].state = "hunting" -> action_hunt(i, cs, fr, own)
           [] cs[i].state = "gathering" -> action_gather(i, cs, fr, own)
           [] cs[i].state = "expanding" -> action_expand(i, cs, fr, own)
           [] cs[i].state = "diplomacy" ->
                  action_diplomacy(i, cs, fr, own, nearby, random_factor)
           [] cs[i].state = "defending" -> action_defend(i, cs, fr, own)
           [] OTHER -> action_idle(i, cs, fr, own)

\* the body of the civilization loop of Simulation.tick for civilization i
CivilizationTurn(i, cs, fr, own, expand_draw, random_factor) ==
    IF ~cs[i].is_alive THEN [civs |-> cs, cells |-> fr, own |-> own]
    ELSE LET nearby == get_nearby_civilizations(i, cs, own)
             st == update_state(cs[i], nearby, cs, expand_draw)
         IN  execute_action(i, [cs EXCEPT ![i].state = st], fr, own,
                            nearby, random_factor)

-----------------------------------------------------------------------------
(* Civilization.process_population_changes: natural_roll and unrest_roll   *)
(* are the outcomes of random.random() < 0.1 and random.random() < 0.005   *)

\* food / population < t / 10
FpcBelowTenths(c, t) ==
    IF c.population = 0 THEN 0 < t ELSE 10 * c.food < t * c.population

\* a collapse that gives the territory up
collapse_check_releasing(c, unrest_roll) ==
    IF c.population < POPULATION_MIN \/ (c.morale < MORALE_CRITICAL /\ unrest_roll)
    THEN [c EXCEPT !.is_alive = FALSE, !.state = "collapsed",
                   !.death_cause = "civil unrest", !.territory = <<>>]
    ELSE c

\* a population check that is off by one
collapse_check_off_by_one(c, unrest_roll) ==
    IF c.population < POPULATION_MIN - 1
    THEN [c EXCEPT !.is_alive = FALSE, !.state = "collapsed",
                   !.death_cause = "population collapse"]
    ELSE IF c.morale < MORALE_CRITICAL /\ unrest_roll
    THEN [c EXCEPT !.is_alive = FALSE, !.state = "collapsed",
                   !.death_cause = "civil unrest"]
    ELSE c

\* a morale check that takes MORALE_CRITICAL itself as critical
collapse_check_morale_inclusive(c, unrest_roll) ==
    IF c.population < POPULATION_MIN
    THEN [c EXCEPT !.is_alive = FALSE, !.state = "collapsed",
                   !.death_cause = "population collapse"]
    ELSE IF c.morale <= MORALE_CRITICAL /\ c.is_alive /\ unrest_roll
    THEN [c EXCEPT !.is_alive = FALSE, !.state = "collapsed",
                   !.death_cause = "civil unrest"]
    ELSE c

\* the collapse checks that end process_population_changes
collapse_check(c, unrest_roll) ==
    IF c.population < POPULATION_MIN
    THEN [c EXCEPT !.is_alive = FALSE, !.state = "collapsed",
                   !.death_cause = "population collapse"]
    ELSE IF c.morale < MORALE_CRITICAL /\ c.is_alive /\ unrest_roll
    THEN [c EXCEPT !.is_alive = FALSE, !.state = "collapsed",
                   !.death_cause = "civil unrest"]
    ELSE c

\* process_population_changes whose births are 1% of the population, without
\* the minimum of one birth
process_population_changes_no_minimum_birth(c, natural_roll, unrest_roll) ==
    IF ~c.is_alive THEN c
    ELSE
    LET starving == FpcBelowTenths(c, 3)
        growing == ~starving /\ FpcAbove(c, 2) /\ c.morale > 50
        pop1 == IF starving THEN Max(0, c.population - c.population \div 50)
                ELSE IF growing THEN c.population + c.population \div 100
                ELSE c.population
        morale1 == IF starving THEN Max(0, c.morale - 3) ELSE c.morale
        pop2 == IF natural_roll THEN Max(0, pop1 - pop1 \div 500) ELSE pop1
    IN  collapse_check([c EXCEPT !.population = pop2, !.morale = morale1],
                       unrest_roll)

\* process_population_changes in which starvation takes at least one life
process_population_changes_starving_minimum(c, natural_roll, unrest_roll) ==
    IF ~c.is_alive THEN c
    ELSE
    LET starving == FpcBelowTenths(c, 3)
        growing == ~starving /\ FpcAbove(c, 2) /\ c.morale > 50
        deaths == Max(1, c.population \div 50)
        births == c.population \div 100
        pop1 == IF starving THEN Max(0, c.population - deaths)
                ELSE IF growing THEN c.population + Max(1, births)
                ELSE c.population
        morale1 == IF starving THEN Max(0, c.morale - 3) ELSE c.morale
        natural_deaths == Max(0, pop1 \div 500)
        pop2 == IF natural_roll THEN Max(0, pop1 - natural_deaths) ELSE pop1
    IN  collapse_check([c EXCEPT !.population = pop2, !.morale = morale1],
                       unrest_roll)

process_population_changes(c, natural_roll, unrest_roll) ==
    IF ~c.is_alive THEN c
    ELSE
    LET starving == FpcBelowTenths(c, 3)
        growing == ~starving /\ FpcAbove(c, 2) /\ c.morale > 50
        deaths == c.population \div 50
        births == c.population \div 100
        pop1 == IF starving THEN Max(0, c.population - deaths)
                ELSE IF growing THEN c.population + Max(1, births)
                ELSE c.population
        morale1 == IF starving THEN Max(0, c.morale - 3) ELSE c.morale
        natural_deaths == Max(0, pop1 \div 500)
        pop2 == IF natural_roll THEN Max(0, pop1 - natural_deaths) ELSE pop1
    IN  collapse_check([c EXCEPT !.population = pop2, !.morale = morale1],
                       unrest_roll)

-----------------------------------------------------------------------------
(* Events (events.py), in the order of EventManager.events *)

InRegion(c, center, radius) ==
    Abs(c[1] - center[1]) <= radius /\ Abs(c[2] - center[2]) <= radius

\* DroughtExecute over the 5x5 region of the bountiful harvest
DroughtExecuteNarrow(center, fr) ==
    [c \in Coords |-> IF InRegion(c, center, 2) THEN Max(0, fr[c] - 30) ELSE fr[c]]

DroughtExecute(center, fr) ==
    [c \in Coords |-> IF InRegion(c, center, 3) THEN Max(0, fr[c] - 30) ELSE fr[c]]

\* BountifulHarvestExecute without the cap at twice the ceiling
BountifulHarvestUncapped(center, fr) ==
    [c \in Coords |-> IF InRegion(c, center, 2) THEN fr[c] + 50 ELSE fr[c]]

BountifulHarvestExecute(center, fr) ==
    [c \in Coords |-> IF InRegion(c, center, 2)
                      THEN Min(max_food[c] * 2, fr[c] + 50)
                      ELSE fr[c]]

\* the targets without the is_alive filter
LivingCivsUnfiltered(cs) == 1 .. Len(cs)

\* living_civs of the civilization-targeted events, as indices
LivingCivs(cs) == {j \in 1 .. Len(cs) : cs[j].is_alive}

\* int(population * random.uniform(0.1, 0.3)): uniform yields 0.1 up to
\* 0.29999999999999993, so the deaths range from population \div 10 up to
\* the largest integer below 0.3 * population; the model draws the two ends
PlagueDeaths(population) ==
    {population \div 10, Max(population \div 10, (3 * population - 1) \div 10)}

\* PlagueExecute without the floor of 10 under the population
PlagueExecuteNoFloor(target, deaths, cs) ==
    [cs EXCEPT ![target].population = @ - deaths,
               ![target].morale = Max(0, @ - 20)]

PlagueExecute(target, deaths, cs) ==
    [cs EXCEPT ![target].population = Max(10, @ - deaths),
               ![target].morale = Max(0, @ - 20)]

DiscoveryExecute(target, cs) ==
    [cs EXCEPT ![target].tech_level = @ + 1,
               ![target].morale = Min(100, @ + 10)]

\* morale_loss is the draw random.randint(5, 15); the model draws its two ends
MoraleLosses == {5, 15}

\* MoraleCrisisExecute without the floor of 0 under the morale
MoraleCrisisExecuteNoFloor(target, morale_loss, cs) ==
    [cs EXCEPT ![target].morale = @ - morale_loss]

MoraleCrisisExecute(target, morale_loss, cs) ==
    [cs EXCEPT ![target].morale = Max(0, @ - morale_loss)]

-----------------------------------------------------------------------------
(* The steps of Simulation.tick *)

NumEvents == 5

\* a tick that goes from its civilization loop to its population loop
AfterCivsSkippingEvents(k, n) ==
    IF k < n THEN <<"civs", k + 1>>
    ELSE IF n > 0 THEN <<"population", 1>> ELSE <<"advance", 0>>

\* the position after the step at (p, k), with n civilizations
AfterCivs(k, n) == IF k < n THEN <<"civs", k + 1>> ELSE <<"events", 1>>

AfterEvent(k, n) ==
    IF k < NumEvents THEN <<"events", k + 1>>
    ELSE IF n > 0 THEN <<"population", 1>> ELSE <<"advance", 0>>

AfterPopulation(k, n) == IF k < n THEN <<"population", k + 1>> ELSE <<"advance", 0>>

\* the start days of the scenarios; ticks run for MaxTicks days from each
StartDays == {0, 40}

TickWindowOpen ==
    \E s \in StartDays : current_day >= s /\ current_day < s + MaxTicks

\* the start of tick(): world.update_climate() and world.update_resources()
TickEnter ==
    /\ pc = "ready"
    /\ food_resource' = update_resources(food_resource)
    /\ LET nxt == AfterCivs(0, Len(civilizations))
       IN  pc' = nxt[1] /\ idx' = nxt[2]
    /\ UNCHANGED <<world_vars, owner, current_day, current_year, civilizations,
                   fired, chronicle, search_vars>>

\* tick() called by the caller of the simulation
TickBegin ==
    /\ run_pc = "none"
    /\ TickWindowOpen
    /\ TickEnter
    /\ UNCHANGED run_vars

\* the random.randint(-15, 15) of _calculate_initial_relations; three values
RelationDraws == {-15, 0, 15}

\* _action_diplomacy logs the first contact when the score is friendly
\* (> 50) or hostile (< 20)
RelationLogged(before, after) ==
    \E n \in DOMAIN after.relations \ DOMAIN before.relations :
        after.relations[n] > 50 \/ after.relations[n] < 20

\* one pass of the civilization loop: nearby, update_state, execute_action
CivStep ==
    /\ pc = "civs"
    /\ \E expand_draw \in BOOLEAN, random_factor \in RelationDraws :
          LET r == CivilizationTurn(idx, civilizations, food_resource, owner,
                                    expand_draw, random_factor)
          IN  /\ civilizations' = r.civs
              /\ food_resource' = r.cells
              /\ owner' = r.own
              /\ chronicle' = IF RelationLogged(civilizations[idx], r.civs[idx])
                              THEN log_event(chronicle) ELSE chronicle
    /\ LET nxt == AfterCivs(idx, Len(civilizations))
       IN  pc' = nxt[1] /\ idx' = nxt[2]
    /\ UNCHANGED <<world_vars, current_day, current_year, fired,
                   search_vars, run_vars>>

EventSkip ==
    /\ pc = "events"
    /\ LET nxt == AfterEvent(idx, Len(civilizations))
       IN  pc' = nxt[1] /\ idx' = nxt[2]
    /\ UNCHANGED <<world_vars, food_resource, owner, current_day, current_year,
                   civilizations, fired, chronicle, search_vars, run_vars>>

EventFires(k) ==
    /\ pc = "events"
    /\ idx = k
    /\ fired < MaxEvents
    /\ fired' = fired + 1
    /\ LET nxt == AfterEvent(idx, Len(civilizations))
       IN  pc' = nxt[1] /\ idx' = nxt[2]
    /\ UNCHANGED <<world_vars, owner, current_day, current_year,
                   search_vars, run_vars>>

\* the centers drawn for the region events: a corner whose region leaves
\* cells out, the middle, and the opposite corner
EventCenters == {<<0, 0>>, <<2, 1>>, <<4, 2>>}

DroughtEvent ==
    /\ EventFires(1)
    /\ \E center \in EventCenters : food_resource' = DroughtExecute(center, food_resource)
    /\ chronicle' = log_event(chronicle)
    /\ UNCHANGED civilizations

BountifulHarvestEvent ==
    /\ EventFires(2)
    /\ \E center \in EventCenters :
          food_resource' = BountifulHarvestExecute(center, food_resource)
    /\ chronicle' = log_event(chronicle)
    /\ UNCHANGED civilizations

PlagueEvent ==
    /\ EventFires(3)
    /\ IF LivingCivs(civilizations) = {}
       THEN UNCHANGED <<civilizations, chronicle>>
       ELSE /\ \E target \in LivingCivs(civilizations) :
                  \E deaths \in PlagueDeaths(civilizations[target].population) :
                     civilizations' = PlagueExecute(target, deaths, civilizations)
            /\ chronicle' = log_major_event(chronicle)
    /\ UNCHANGED food_resource

TechnologicalDiscoveryEvent ==
    /\ EventFires(4)
    /\ IF LivingCivs(civilizations) = {}
       THEN UNCHANGED <<civilizations, chronicle>>
       ELSE /\ \E target \in LivingCivs(civilizations) :
                  civilizations' = DiscoveryExecute(target, civilizations)
            /\ chronicle' = log_event(chronicle)
    /\ UNCHANGED food_resource

MoraleCrisisEvent ==
    /\ EventFires(5)
    /\ IF LivingCivs(civilizations) = {}
       THEN UNCHANGED <<civilizations, chronicle>>
       ELSE /\ \E target \in LivingCivs(civilizations), morale_loss \in MoraleLosses :
                  civilizations' = MoraleCrisisExecute(target, morale_loss, civilizations)
            /\ chronicle' = log_event(chronicle)
    /\ UNCHANGED food_resource

\* what process_population_changes logs: the starvation deaths when there
\* are any, and the collapse
PopulationLogged(before, after, ch) ==
    LET ch1 == IF /\ before.is_alive
                  /\ FpcBelowTenths(before, 3)
                  /\ before.population \div 50 > 0
               THEN log_event(ch) ELSE ch
    IN  IF before.is_alive /\ ~after.is_alive THEN log_major_event(ch1) ELSE ch1

\* one pass of the population loop
PopulationStep ==
    /\ pc = "population"
    /\ \E natural_roll \in BOOLEAN, unrest_roll \in BOOLEAN :
          LET after == process_population_changes(civilizations[idx],
                                                  natural_roll, unrest_roll)
          IN  /\ civilizations' = [civilizations EXCEPT ![idx] = after]
              /\ chronicle' = PopulationLogged(civilizations[idx], after, chronicle)
    /\ LET nxt == AfterPopulation(idx, Len(civilizations))
       IN  pc' = nxt[1] /\ idx' = nxt[2]
    /\ UNCHANGED <<world_vars, food_resource, owner, current_day, current_year,
                   fired, search_vars, run_vars>>

\* World.advance_day
AdvanceDay ==
    /\ pc = "advance"
    /\ current_day' = advance_day(current_day, current_year)[1]
    /\ current_year' = advance_day(current_day, current_year)[2]
    /\ pc' = "ready"
    /\ idx' = 0
    /\ UNCHANGED <<world_vars, food_resource, owner, civilizations, fired,
                   chronicle, search_vars, run_vars>>

-----------------------------------------------------------------------------
(* Simulation.add_civilization with start_x and start_y given *)

\* the calls of the model: the position the caller passes, and the draws of
\* Civilization.__init__ (randint(30, 60), randint(70, 90), random.choice)
FoundingCalls ==
    {[start |-> <<2, 1>>, population |-> 30, morale |-> 70,
      personality |-> "expansionist"],
     [start |-> <<2, 2>>, population |-> 60, morale |-> 90,
      personality |-> "peaceful"]}

AddCivilization ==
    /\ pc = "ready"
    /\ run_pc = "none"
    /\ Len(civilizations) < MaxCivs
    /\ \E d \in FoundingCalls :
          LET name == Names[Len(civilizations) + 1]
          IN  /\ civilizations' =
                    Append(civilizations,
                           NewCivilization(name, d.start, d.population, d.morale,
                                           d.personality, owner))
              /\ owner' = OwnerAfterFounding(name, d.start, owner)
    /\ chronicle' = log_major_event(chronicle)
    /\ raised' = None
    /\ UNCHANGED <<world_vars, food_resource, current_day, current_year, pc, idx,
                   fired, start_x, start_y, attempts, run_vars>>

-----------------------------------------------------------------------------
(* Simulation.add_civilization without a complete position: the search.    *)
(* pc = "search" while the while loop runs; each pass draws one candidate. *)

MAX_ATTEMPTS == 100

MIN_DISTANCE == 6

\* random.randint(2, width - 3) and random.randint(2, height - 3); the
\* worlds of the model are wide and high enough for both ranges to hold a
\* value
SearchCandidates == (2 .. width - 3) \X (2 .. height - 3)

too_close(c, cs) ==
    \E i \in 1 .. Len(cs) :
        Abs(c[1] - cs[i].capital[1]) + Abs(c[2] - cs[i].capital[2]) < MIN_DISTANCE

\* the test a candidate has to pass
CandidateAccepted(c, cs, own) ==
    InGrid(c) /\ is_passable(c) /\ own[c] = None /\ ~too_close(c, cs)

\* the positions the caller passes: none, or only one of the two
SearchCalls == {<< <<>>, <<>> >>, << <<>>, <<2>> >>, << <<2>>, <<>> >>}

AddCivilizationSearch ==
    /\ pc = "ready"
    /\ run_pc = "none"
    /\ Len(civilizations) < MaxCivs
    /\ \E a \in SearchCalls : start_x' = a[1] /\ start_y' = a[2]
    /\ attempts' = 0
    /\ raised' = None
    /\ pc' = "search"
    /\ UNCHANGED <<world_vars, food_resource, owner, current_day, current_year,
                   civilizations, idx, fired, chronicle, run_vars>>

\* a pass of the loop whose candidate fails the test
SearchReject ==
    /\ pc = "search"
    /\ attempts < MAX_ATTEMPTS
    /\ \E c \in SearchCandidates : ~CandidateAccepted(c, civilizations, owner)
    /\ attempts' = attempts + 1
    /\ UNCHANGED <<world_vars, food_resource, owner, current_day, current_year,
                   civilizations, pc, idx, fired, chronicle, start_x, start_y,
                   raised, run_vars>>

\* a pass whose candidate passes: the loop is left and the civilization is
\* created there
SearchAccept ==
    /\ pc = "search"
    /\ attempts < MAX_ATTEMPTS
    /\ \E c \in SearchCandidates, d \in FoundingCalls :
          /\ CandidateAccepted(c, civilizations, owner)
          /\ LET name == Names[Len(civilizations) + 1]
             IN  /\ civilizations' =
                       Append(civilizations,
                              NewCivilization(name, c, d.population, d.morale,
                                              d.personality, owner))
                 /\ owner' = OwnerAfterFounding(name, c, owner)
    /\ chronicle' = log_major_event(chronicle)
    /\ start_x' = <<>>
    /\ start_y' = <<>>
    /\ pc' = "ready"
    /\ UNCHANGED <<world_vars, food_resource, current_day, current_year, idx,
                   fired, attempts, raised, run_vars>>

\* SearchExhausted that returns to its caller without raising
SearchExhaustedSilent ==
    /\ pc = "search"
    /\ attempts >= MAX_ATTEMPTS
    /\ start_x' = <<>>
    /\ start_y' = <<>>
    /\ pc' = "ready"
    /\ UNCHANGED <<world_vars, food_resource, owner, current_day, current_year,
                   civilizations, idx, fired, chronicle, attempts, raised, run_vars>>

\* the loop ends with every candidate rejected: ValueError when start_x is
\* None; with start_x given and start_y None the constructor is reached and
\* raises TypeError in _claim_starting_territory before it claims a cell
SearchExhausted ==
    /\ pc = "search"
    /\ attempts >= MAX_ATTEMPTS
    /\ raised' = IF start_x = <<>> THEN "ValueError" ELSE "TypeError"
    /\ start_x' = <<>>
    /\ start_y' = <<>>
    /\ pc' = "ready"
    /\ UNCHANGED <<world_vars, food_resource, owner, current_day, current_year,
                   civilizations, idx, fired, chronicle, attempts, run_vars>>

-----------------------------------------------------------------------------
(* Simulation.run and Simulation.stop.  run_pc is "loop" at the head of    *)
(* the for loop, "tick" while self.tick() runs, "returned" after run.      *)

\* run(days), with days from 0 up to the bound on ticks
RunStart ==
    /\ pc = "ready"
    /\ run_pc = "none"
    /\ \E d \in 0 .. MaxTicks : run_days' = d
    /\ running' = TRUE
    /\ start_tick' = current_day
    /\ run_day' = 0
    /\ run_pc' = "loop"
    /\ UNCHANGED <<world_vars, food_resource, owner, current_day, current_year,
                   civilizations, pc, idx, fired, chronicle, search_vars>>

\* a pass of the loop with running set: self.tick() begins
RunTick ==
    /\ run_pc = "loop"
    /\ run_day < run_days
    /\ running
    /\ TickEnter
    /\ run_pc' = "tick"
    /\ UNCHANGED <<running, run_days, run_day, start_tick>>

\* RunAfterTick without the test for living civilizations
RunAfterTickNoBreak ==
    /\ run_pc = "tick"
    /\ pc = "ready"
    /\ run_day' = run_day + 1
    /\ run_pc' = "loop"
    /\ UNCHANGED <<world_vars, food_resource, owner, current_day, current_year,
                   civilizations, pc, idx, fired, chronicle, search_vars,
                   running, run_days, start_tick>>

\* self.tick() has returned: leave the loop when nobody is alive (the break
\* and the running = False after the loop), else go to the next pass
RunAfterTick ==
    /\ run_pc = "tick"
    /\ pc = "ready"
    /\ IF LivingCivs(civilizations) = {}
       THEN /\ chronicle' = log_major_event(chronicle)
            /\ running' = FALSE
            /\ run_pc' = "returned"
            /\ UNCHANGED run_day
       ELSE /\ run_day' = run_day + 1
            /\ run_pc' = "loop"
            /\ UNCHANGED <<chronicle, running>>
    /\ UNCHANGED <<world_vars, food_resource, owner, current_day, current_year,
                   civilizations, pc, idx, fired, search_vars, run_days, start_tick>>

\* the loop ends: range(days) is used up, or running is found false
RunLoopExit ==
    /\ run_pc = "loop"
    /\ run_day >= run_days \/ ~running
    /\ running' = FALSE
    /\ run_pc' = "returned"
    /\ UNCHANGED <<world_vars, food_resource, owner, current_day, current_year,
                   civilizations, pc, idx, fired, chronicle, search_vars,
                   run_days, run_day, start_tick>>

\* Simulation.stop, called from outside while run is in progress
Stop ==
    /\ run_pc \in {"loop", "tick"}
    /\ running
    /\ running' = FALSE
    /\ UNCHANGED <<world_vars, food_resource, owner, current_day, current_year,
                   civilizations, pc, idx, fired, chronicle, search_vars,
                   run_pc, run_days, run_day, start_tick>>

-----------------------------------------------------------------------------
(* World generation and the scenarios the model starts from *)

\* Cell._initial_food draws from a range per terrain; the model takes either
\* the low or the high end of every range
InitialFood(t, high) ==
    CASE t = "plains" -> IF high THEN 100 ELSE 50
      [] t = "forest" -> IF high THEN 150 ELSE 80
      [] t = "mountain" -> IF high THEN 30 ELSE 10
      [] t = "water" -> IF high THEN 120 ELSE 60
      [] t = "desert" -> IF high THEN 20 ELSE 5

\* the generated terrain, row by row (row y, column x)
Layout ==
    << <<"plains", "forest", "plains", "plains", "desert">>,
       <<"plains", "plains", "water", "forest", "plains">>,
       <<"mountain", "plains", "plains", "plains", "plains">> >>

\* A scenario is a world in which two civilizations have been founded by
\* add_civilization and have lived for some days: their population, food and
\* morale are those of a later day of a run (population >= 10, food >= 0,
\* morale in 0..100), cells keep their full stock or are exhausted.
Scenarios ==
    { [day |-> 40, high |-> TRUE, depleted |-> FALSE,
       capitals |-> << <<0, 1>>, <<4, 1>> >>,
       attrs |-> << [population |-> 10, food |-> 2000, morale |-> 80,
                     personality |-> "aggressive"],
                    [population |-> 12, food |-> 2000, morale |-> 60,
                     personality |-> "peaceful"] >>],
      [day |-> 0, high |-> FALSE, depleted |-> FALSE,
       capitals |-> << <<0, 1>>, <<4, 1>> >>,
       attrs |-> << [population |-> 30, food |-> 200, morale |-> 70,
                     personality |-> "expansionist"],
                    [population |-> 60, food |-> 200, morale |-> 90,
                     personality |-> "trading"] >>],
      [day |-> 0, high |-> FALSE, depleted |-> FALSE,
       capitals |-> << <<1, 1>>, <<3, 1>> >>,
       attrs |-> << [population |-> 10, food |-> 300, morale |-> 5,
                     personality |-> "isolationist"],
                    [population |-> 10, food |-> 600, morale |-> 100,
                     personality |-> "aggressive"] >>],
      [day |-> 0, high |-> FALSE, depleted |-> TRUE,
       capitals |-> << <<0, 1>>, <<4, 1>> >>,
       attrs |-> << [population |-> 60, food |-> 10, morale |-> 55,
                     personality |-> "peaceful"],
                    [population |-> 500, food |-> 1100, morale |-> 60,
                     personality |-> "trading"] >>] }

\* civilization k of scenario sc, founded on the owners own
ScenarioCiv(sc, k, own) ==
    [NewCivilization(Names[k], sc.capitals[k], sc.attrs[k].population,
                     sc.attrs[k].morale, sc.attrs[k].personality, own)
       EXCEPT !.food = sc.attrs[k].food]

InitScenario(sc) ==
    /\ width = 5
    /\ height = 3
    /\ terrain = [c \in Coords |-> Layout[c[2] + 1][c[1] + 1]]
    /\ max_food = [c \in Coords |-> InitialFood(terrain[c], sc.high)]
    /\ food_resource = IF sc.depleted THEN [c \in Coords |-> 0] ELSE max_food
    /\ LET own0 == [c \in Coords |-> None]
           own1 == OwnerAfterFounding(Names[1], sc.capitals[1], own0)
           own2 == OwnerAfterFounding(Names[2], sc.capitals[2], own1)
       IN  /\ civilizations = <<ScenarioCiv(sc, 1, own0), ScenarioCiv(sc, 2, own1)>>
           /\ owner = own2
    /\ current_day = sc.day
    /\ current_year = (sc.day \div DAYS_PER_YEAR) + 1
    /\ pc = "ready"
    /\ idx = 0
    /\ fired = 0
    /\ chronicle = [events |-> 0, major_events |-> 2]
    /\ start_x = <<>>
    /\ start_y = <<>>
    /\ attempts = 0
    /\ raised = None
    /\ running = FALSE
    /\ run_pc = "none"
    /\ run_days = 0
    /\ run_day = 0
    /\ start_tick = 0

Init == \E sc \in Scenarios : InitScenario(sc)

Next ==
    \/ TickBegin
    \/ CivStep
    \/ EventSkip
    \/ DroughtEvent
    \/ BountifulHarvestEvent
    \/ PlagueEvent
    \/ TechnologicalDiscoveryEvent
    \/ MoraleCrisisEvent
    \/ PopulationStep
    \/ AdvanceDay
    \/ AddCivilization

Spec == Init /\ [][Next]_vars

\* Scenarios in which a test has set a population below POPULATION_MIN on a
\* founded civilization, which no run of add_civilization and tick reaches
InjectedScenarios ==
    { [day |-> 0, high |-> FALSE, depleted |-> FALSE,
       capitals |-> << <<0, 1>>, <<4, 1>> >>,
       attrs |-> << [population |-> 9, food |-> 200, morale |-> 80,
                     personality |-> "peaceful"],
                    [population |-> 30, food |-> 200, morale |-> 70,
                     personality |-> "expansionist"] >>],
      [day |-> 0, high |-> FALSE, depleted |-> TRUE,
       capitals |-> << <<0, 1>>, <<4, 1>> >>,
       attrs |-> << [population |-> 0, food |-> 0, morale |-> 50,
                     personality |-> "trading"],
                    [population |-> 9, food |-> 2000, morale |-> 5,
                     personality |-> "aggressive"] >>],
      [day |-> 0, high |-> FALSE, depleted |-> FALSE,
       capitals |-> << <<0, 1>>, <<4, 1>> >>,
       attrs |-> << [population |-> 9, food |-> 200, morale |-> 80,
                     personality |-> "peaceful"],
                    [population |-> 10, food |-> 600, morale |-> 13,
                     personality |-> "aggressive"] >>] }

InitInjected == \E sc \in InjectedScenarios : InitScenario(sc)

SpecInjected == InitInjected /\ [][Next]_vars

\* the terrain of the world the placement search is run in, row by row
PlacementLayout ==
    << <<"plains", "plains", "plains", "plains", "forest", "plains",
         "plains", "desert", "plains", "plains", "plains">>,
       <<"plains", "forest", "plains", "plains", "plains", "plains",
         "mountain", "plains", "plains", "forest", "plains">>,
       <<"plains", "plains", "plains", "plains", "water", "forest",
         "plains", "plains", "plains", "plains", "plains">>,
       <<"plains", "plains", "water", "plains", "plains", "plains",
         "plains", "plains", "forest", "plains", "plains">>,
       <<"desert", "plains", "plains", "plains", "plains", "forest",
         "plains", "plains", "plains", "plains", "mountain">> >>

\* Simulation(11, 5): a generated world, no civilization, an empty chronicle
InitPlacement ==
    /\ width = 11
    /\ height = 5
    /\ terrain = [c \in Coords |-> PlacementLayout[c[2] + 1][c[1] + 1]]
    /\ max_food = [c \in Coords |-> InitialFood(terrain[c], FALSE)]
    /\ food_resource = max_food
    /\ owner = [c \in Coords |-> None]
    /\ civilizations = <<>>
    /\ current_day = 0
    /\ current_year = 1
    /\ pc = "ready"
    /\ idx = 0
    /\ fired = 0
    /\ chronicle = [events |-> 0, major_events |-> 0]
    /\ start_x = <<>>
    /\ start_y = <<>>
    /\ attempts = 0
    /\ raised = None
    /\ running = FALSE
    /\ run_pc = "none"
    /\ run_days = 0
    /\ run_day = 0
    /\ start_tick = 0

NextPlacement ==
    \/ AddCivilization
    \/ AddCivilizationSearch
    \/ SearchReject
    \/ SearchAccept
    \/ SearchExhausted

\* add_civilization called with a position, or without a complete one
SpecPlacement == InitPlacement /\ [][NextPlacement]_vars

\* the worlds run() is called in: two civilizations whose morale events
\* have brought below MORALE_CRITICAL, and two well-fed ones
RunScenarios ==
    { [day |-> 0, high |-> FALSE, depleted |-> FALSE,
       capitals |-> << <<0, 1>>, <<4, 1>> >>,
       attrs |-> << [population |-> 10, food |-> 300, morale |-> 5,
                     personality |-> "isolationist"],
                    [population |-> 12, food |-> 700, morale |-> 3,
                     personality |-> "aggressive"] >>],
      [day |-> 0, high |-> FALSE, depleted |-> FALSE,
       capitals |-> << <<0, 1>>, <<4, 1>> >>,
       attrs |-> << [population |-> 30, food |-> 200, morale |-> 70,
                     personality |-> "expansionist"],
                    [population |-> 60, food |-> 200, morale |-> 90,
                     personality |-> "trading"] >>] }

\* An exhausted world late in a run: a starving civilization whose morale
\* is almost gone, and a small one on the poor corner of the map whose
\* morale is almost full and whose cells yield less than it needs
ExtremeScenarios ==
    { [day |-> 0, high |-> FALSE, depleted |-> TRUE,
       capitals |-> << <<0, 1>>, <<4, 0>> >>,
       attrs |-> << [population |-> 50, food |-> 0, morale |-> 1,
                     personality |-> "peaceful"],
                    [population |-> 10, food |-> 0, morale |-> 99,
                     personality |-> "isolationist"] >>] }

\* tick() and add_civilization called by hand on the scenarios, on the worlds
\* of RunScenarios, one of which loses both civilizations in a tick, and on
\* the exhausted world
InitTicks ==
    \E sc \in Scenarios \cup RunScenarios \cup ExtremeScenarios : InitScenario(sc)

SpecTicks == InitTicks /\ [][Next]_vars

InitRun == \E sc \in RunScenarios : InitScenario(sc)

\* the steps run() takes by itself
RunProgress ==
    \/ RunTick
    \/ CivStep
    \/ EventSkip
    \/ DroughtEvent
    \/ BountifulHarvestEvent
    \/ PlagueEvent
    \/ TechnologicalDiscoveryEvent
    \/ MoraleCrisisEvent
    \/ PopulationStep
    \/ AdvanceDay
    \/ RunAfterTick
    \/ RunLoopExit

NextRun ==
    \/ RunStart
    \/ RunProgress
    \/ Stop

\* run() is a loop without a blocking call: once called it keeps stepping
SpecRun == InitRun /\ [][NextRun]_vars /\ WF_vars(RunProgress)

\* the civilizations and owners after n more expansions of civilization 1,
\* or as many as there is room for
RECURSIVE Expansions(_, _, _)
Expansions(cs, own, n) ==
    IF n = 0 THEN [civs |-> cs, own |-> own]
    ELSE LET r == action_expand(1, cs, max_food, own)
         IN  IF r.own = own THEN [civs |-> cs, own |-> own]
             ELSE Expansions(r.civs, r.own, n - 1)

\* the sizes the territory has grown to when the model takes over
GrownSizes == {28, 29}

\* Simulation(11, 5) late in a run: an expansionist civilization founded at
\* (5, 2) has expanded, one cell a tick, to 28 or 29 cells and is well fed
InitExpansion ==
    /\ width = 11
    /\ height = 5
    /\ terrain = [c \in Coords |-> PlacementLayout[c[2] + 1][c[1] + 1]]
    /\ max_food = [c \in Coords |-> InitialFood(terrain[c], FALSE)]
    /\ food_resource = max_food
    /\ \E size \in GrownSizes :
          LET own0 == [c \in Coords |-> None]
              founded == NewCivilization(Names[1], <<5, 2>>, 30, 80,
                                         "expansionist", own0)
              grown == Expansions(<<founded>>,
                                  OwnerAfterFounding(Names[1], <<5, 2>>, own0),
                                  size - Len(founded.territory))
          IN  /\ civilizations = [grown.civs EXCEPT ![1].food = 6000,
                                                    ![1].state = "expanding"]
              /\ owner = grown.own
    /\ current_day = 40
    /\ current_year = 1
    /\ pc = "ready"
    /\ idx = 0
    /\ fired = 0
    /\ chronicle = [events |-> 0, major_events |-> 1]
    /\ start_x = <<>>
    /\ start_y = <<>>
    /\ attempts = 0
    /\ raised = None
    /\ running = FALSE
    /\ run_pc = "none"
    /\ run_days = 0
    /\ run_day = 0
    /\ start_tick = 0

\* ticks and foundings around a civilization close to the territory limit
SpecExpansion == InitExpansion /\ [][Next]_vars

\* The inputs of process_population_changes: populations around the steps
\* of the 2%, 1% and 0.2% terms, food around 0.3 and 2.0 per capita, morale
\* around 10 and 50
PopulationInputs ==
    {0, 1, 9, 10, 49, 50, 51, 99, 100, 101, 199, 200, 499, 500, 501, 999, 1000, 5000}

FoodInputs(population) ==
    {f \in {0,
            (3 * population) \div 10 - 1, (3 * population) \div 10,
            (3 * population) \div 10 + 1,
            2 * population - 1, 2 * population, 2 * population + 1,
            20 * population} : f >= 0}

MoraleInputs == {0, 9, 10, 50, 51, 100}

\* one civilization with the attributes a test sets, at its population update
InitPopulation ==
    /\ width = 5
    /\ height = 3
    /\ terrain = [c \in Coords |-> Layout[c[2] + 1][c[1] + 1]]
    /\ max_food = [c \in Coords |-> InitialFood(terrain[c], FALSE)]
    /\ food_resource = max_food
    /\ \E population \in PopulationInputs, morale \in MoraleInputs :
          \E food \in FoodInputs(population) :
             civilizations =
                 << [NewCivilization(Names[1], <<0, 1>>, population, morale,
                                     "peaceful", [c \in Coords |-> None])
                       EXCEPT !.food = food] >>
    /\ owner = OwnerAfterFounding(Names[1], <<0, 1>>, [c \in Coords |-> None])
    /\ current_day = 0
    /\ current_year = 1
    /\ pc = "population"
    /\ idx = 1
    /\ fired = 0
    /\ chronicle = [events |-> 0, major_events |-> 1]
    /\ start_x = <<>>
    /\ start_y = <<>>
    /\ attempts = 0
    /\ raised = None
    /\ running = FALSE
    /\ run_pc = "none"
    /\ run_days = 0
    /\ run_day = 0
    /\ start_tick = 0

NextPopulation ==
    \/ PopulationStep
    \/ AdvanceDay

\* process_population_changes applied to each of the inputs
SpecPopulation == InitPopulation /\ [][NextPopulation]_vars

\* World.advance_day called on a world by itself
WorldAdvanceDay ==
    /\ pc = "ready"
    /\ run_pc = "none"
    /\ current_day < MaxClockDays
    /\ current_day' = advance_day(current_day, current_year)[1]
    /\ current_year' = advance_day(current_day, current_year)[2]
    /\ UNCHANGED <<world_vars, food_resource, owner, civilizations, pc, idx, fired,
                   chronicle, search_vars, run_vars>>

\* World(5, 3): day 0 of year 1, no civilization
InitClock ==
    /\ width = 5
    /\ height = 3
    /\ terrain = [c \in Coords |-> Layout[c[2] + 1][c[1] + 1]]
    /\ max_food = [c \in Coords |-> InitialFood(terrain[c], FALSE)]
    /\ food_resource = max_food
    /\ owner = [c \in Coords |-> None]
    /\ civilizations = <<>>
    /\ current_day = 0
    /\ current_year = 1
    /\ pc = "ready"
    /\ idx = 0
    /\ fired = 0
    /\ chronicle = [events |-> 0, major_events |-> 0]
    /\ start_x = <<>>
    /\ start_y = <<>>
    /\ attempts = 0
    /\ raised = None
    /\ running = FALSE
    /\ run_pc = "none"
    /\ run_days = 0
    /\ run_day = 0
    /\ start_tick = 0

NextClock == WorldAdvanceDay

\* the calendar of a world over more than two years
SpecClock == InitClock /\ [][NextClock]_vars

-----------------------------------------------------------------------------
(* Regeneration over the seasons: a world without civilizations whose       *)
(* caller keeps calling tick()                                              *)

\* the ceilings random.randint draws in _initial_food, per terrain: the two
\* ends of each range, and for the desert also 9 and 10
CeilingProfiles ==
    { [desert |-> 5, mountain |-> 10, plains |-> 50, forest |-> 80, water |-> 60],
      [desert |-> 9, mountain |-> 30, plains |-> 100, forest |-> 150, water |-> 120],
      [desert |-> 10, mountain |-> 10, plains |-> 50, forest |-> 80, water |-> 60],
      [desert |-> 20, mountain |-> 30, plains |-> 100, forest |-> 150, water |-> 120] }

\* the world starts in the harsh season (2% until day 35, 10% from day 36)
\* or in the mild one
RegenerationStartDays == {0, 40}

InitRegeneration ==
    /\ width = 5
    /\ height = 3
    /\ terrain = [c \in Coords |-> Layout[c[2] + 1][c[1] + 1]]
    /\ \E profile \in CeilingProfiles :
          max_food = [c \in Coords |-> profile[terrain[c]]]
    /\ food_resource = max_food
    /\ owner = [c \in Coords |-> None]
    /\ civilizations = <<>>
    /\ current_day \in RegenerationStartDays
    /\ current_year = 1
    /\ pc = "ready"
    /\ idx = 0
    /\ fired = 0
    /\ chronicle = [events |-> 0, major_events |-> 0]
    /\ start_x = <<>>
    /\ start_y = <<>>
    /\ attempts = 0
    /\ raised = None
    /\ running = FALSE
    /\ run_pc = "none"
    /\ run_days = 0
    /\ run_day = 0
    /\ start_tick = 0

\* tick() called by the caller of the simulation, day after day
RegenerationTick ==
    /\ run_pc = "none"
    /\ current_day < MaxRegenDay
    /\ TickEnter
    /\ UNCHANGED run_vars

NextRegeneration ==
    \/ RegenerationTick
    \/ EventSkip
    \/ DroughtEvent
    \/ BountifulHarvestEvent
    \/ AdvanceDay

\* the caller goes on calling tick(), and a tick runs to its end
SpecRegeneration ==
    InitRegeneration /\ [][NextRegeneration]_vars /\ WF_vars(NextRegeneration)

-----------------------------------------------------------------------------
(* First contacts: three civilizations, the first one between the two      *)
(* others, and a caller that keeps calling tick()                          *)

\* the capitals: A founded in the middle, B to the west, C to the east
ContactCapitals == << <<2, 0>>, <<0, 1>>, <<4, 1>> >>

ContactStartDay == 40

\* A well fed with two hungry neighbors, which never ask for contact
\* themselves; A modestly fed with a well-fed and a hungry neighbor; all
\* three hungry; and all three well fed
ContactScenarios ==
    { << [population |-> 10, food |-> 2000, morale |-> 80, personality |-> "expansionist"],
         [population |-> 60, food |-> 200, morale |-> 90, personality |-> "trading"],
         [population |-> 60, food |-> 200, morale |-> 90, personality |-> "peaceful"] >>,
      << [population |-> 10, food |-> 1000, morale |-> 80, personality |-> "peaceful"],
         [population |-> 10, food |-> 2000, morale |-> 70, personality |-> "aggressive"],
         [population |-> 60, food |-> 200, morale |-> 90, personality |-> "isolationist"] >>,
      << [population |-> 60, food |-> 200, morale |-> 80, personality |-> "expansionist"],
         [population |-> 60, food |-> 200, morale |-> 90, personality |-> "trading"],
         [population |-> 60, food |-> 200, morale |-> 90, personality |-> "peaceful"] >>,
      << [population |-> 10, food |-> 2000, morale |-> 80, personality |-> "aggressive"],
         [population |-> 10, food |-> 2000, morale |-> 70, personality |-> "aggressive"],
         [population |-> 12, food |-> 2000, morale |-> 60, personality |-> "peaceful"] >> }

\* civilization k of the first-contact world, founded on the owners own
ContactCiv(attrs, k, own) ==
    [NewCivilization(Names[k], ContactCapitals[k], attrs[k].population,
                     attrs[k].morale, attrs[k].personality, own)
       EXCEPT !.food = attrs[k].food]

InitContact ==
    /\ width = 5
    /\ height = 3
    /\ terrain = [c \in Coords |-> Layout[c[2] + 1][c[1] + 1]]
    /\ max_food = [c \in Coords |-> InitialFood(terrain[c], FALSE)]
    /\ food_resource = max_food
    /\ \E attrs \in ContactScenarios :
          LET own0 == [c \in Coords |-> None]
              own1 == OwnerAfterFounding(Names[1], ContactCapitals[1], own0)
              own2 == OwnerAfterFounding(Names[2], ContactCapitals[2], own1)
              own3 == OwnerAfterFounding(Names[3], ContactCapitals[3], own2)
          IN  /\ civilizations = <<ContactCiv(attrs, 1, own0),
                                   ContactCiv(attrs, 2, own1),
                                   ContactCiv(attrs, 3, own2)>>
              /\ owner = own3
    /\ current_day = ContactStartDay
    /\ current_year = 1
    /\ pc = "ready"
    /\ idx = 0
    /\ fired = 0
    /\ chronicle = [events |-> 0, major_events |-> 3]
    /\ start_x = <<>>
    /\ start_y = <<>>
    /\ attempts = 0
    /\ raised = None
    /\ running = FALSE
    /\ run_pc = "none"
    /\ run_days = 0
    /\ run_day = 0
    /\ start_tick = 0

\* tick() called by the caller of the simulation, MaxContactTicks times
ContactTick ==
    /\ run_pc = "none"
    /\ current_day < ContactStartDay + MaxContactTicks
    /\ TickEnter
    /\ UNCHANGED run_vars

\* the ticks of a simulation to which no civilization is added any more
NextContact ==
    \/ ContactTick
    \/ CivStep
    \/ EventSkip
    \/ DroughtEvent
    \/ BountifulHarvestEvent
    \/ PlagueEvent
    \/ TechnologicalDiscoveryEvent
    \/ MoraleCrisisEvent
    \/ PopulationStep
    \/ AdvanceDay

\* the steps of NextContact as seen on the position in tick(): every step
\* moves pc or idx, a tick in progress always has a next step, and between
\* two ticks the caller has one while days remain
ContactProgress ==
    /\ pc # "ready" \/ current_day < ContactStartDay + MaxContactTicks
    /\ pc' \in {"ready", "civs", "events", "population", "advance"}
    /\ idx' \in 0 .. NumEvents + MaxCivs
    /\ <<pc', idx'>> # <<pc, idx>>

\* the caller goes on calling tick(), and a tick runs to its end
SpecContact ==
    InitContact /\ [][NextContact]_vars /\ WF_<<pc, idx>>(ContactProgress)

-----------------------------------------------------------------------------
(* Properties *)

IsPrefix(s, t) == Len(s) <= Len(t) /\ SubSeq(t, 1, Len(s)) = s

CivIndices == 1 .. Len(civilizations)

\* no unowned passable cell is left in the world
WorldFull == \A c \in Coords : is_passable(c) => owner[c] # None

(* C1: ownership and territory agree in both directions: a coordinate is in *)
(* a civilization's territory exactly when the cell there is owned by it.   *)
C1_TerritoryOwnerSync ==
    \A i \in CivIndices :
        /\ SeqToSet(civilizations[i].territory) \subseteq Coords
        /\ \A c \in Coords :
              c \in SeqToSet(civilizations[i].territory)
                  <=> owner[c] = civilizations[i].name

\* a civilization has expanded into <<2, 0>> and a third one was founded later
C1_Witness ==
    /\ Len(civilizations) = 3
    /\ civilizations[3].territory # <<>>
    /\ \E i \in 1 .. 2 :
          /\ civilizations[i].state = "expanding"
          /\ <<2, 0>> \in SeqToSet(civilizations[i].territory)

(* C2: no coordinate is in the territory of two civilizations, and none is *)
(* twice in the territory of one.                                          *)
C2_NoSharedCoordinate ==
    /\ \A i, j \in CivIndices :
          i # j => SeqToSet(civilizations[i].territory)
                     \cap SeqToSet(civilizations[j].territory) = {}
    /\ \A i \in CivIndices :
          \A k, l \in 1 .. Len(civilizations[i].territory) :
              k # l => civilizations[i].territory[k] # civilizations[i].territory[l]

\* every passable cell is owned, and a civilization that has expanded twice
\* borders another one
C2_Witness ==
    /\ WorldFull
    /\ \E i \in CivIndices :
          /\ civilizations[i].state = "expanding"
          /\ Len(civilizations[i].territory) >= 7
          /\ get_nearby_civilizations(i, civilizations, owner) # <<>>

(* C3: across every step a territory only grows by appending and an owner, *)
(* once set, is never changed or cleared, also after a collapse.            *)
C3_AppendOnlyWriteOnce ==
    [][/\ Len(civilizations') >= Len(civilizations)
       /\ \A i \in CivIndices :
             IsPrefix(civilizations[i].territory, civilizations'[i].territory)
       /\ \A c \in Coords : owner[c] # None => owner'[c] = owner[c]]_vars

\* a later tick runs its civilization phase with a collapsed owner of cells
C3_Witness ==
    /\ pc = "civs"
    /\ \E i \in CivIndices :
          /\ ~civilizations[i].is_alive
          /\ civilizations[i].territory # <<>>
          /\ \A k \in 1 .. Len(civilizations[i].territory) :
                owner[civilizations[i].territory[k]] = civilizations[i].name

(* C4: every cell's food stock stays within 0 .. 2 * max_food. *)
C4_FoodWithinBounds ==
    \A c \in Coords : food_resource[c] >= 0 /\ food_resource[c] <= 2 * max_food[c]

\* a bountiful harvest has lifted a cell to twice its ceiling while a
\* harvested cell is empty
C4_Witness ==
    /\ \E c \in Coords : food_resource[c] = 2 * max_food[c]
    /\ \E c \in Coords : food_resource[c] = 0 /\ owner[c] # None
    /\ \E c \in Coords : food_resource[c] > 0 /\ food_resource[c] < max_food[c]

RelationKnown(a, b) == b.name \in DOMAIN a.relations

C5_RelationsState ==
    \A i, j \in CivIndices :
        LET a == civilizations[i]
            b == civilizations[j]
        IN  /\ RelationKnown(a, b) <=> RelationKnown(b, a)
            /\ RelationKnown(a, b) =>
                  /\ a.relations[b.name] = b.relations[a.name]
                  /\ a.relations[b.name] \in 0 .. 100

C5_RelationsKept ==
    \A i \in CivIndices :
        \A n \in DOMAIN civilizations[i].relations :
            /\ n \in DOMAIN civilizations'[i].relations
            /\ civilizations'[i].relations[n] = civilizations[i].relations[n]

(* C5: relations are symmetric with equal scores in 0..100 in every state, *)
(* and a score, once it exists, keeps its value in every later state.      *)
C5_RelationsSymmetricImmutable ==
    []C5_RelationsState /\ [][C5_RelationsKept]_vars

\* a relation made in an earlier tick is there when a tick's first
\* civilization is about to act
C5_Witness ==
    /\ pc = "civs"
    /\ idx = 1
    /\ \E i, j \in CivIndices :
          /\ i # j
          /\ RelationKnown(civilizations[i], civilizations[j])
          /\ civilizations[i].relations[civilizations[j].name] < 50

(* C6: when the population phase of a tick has ended, every civilization   *)
(* with population below 10 is non-live, Collapsed, with death cause       *)
(* "population collapse".                                                  *)
C6_CollapsedBelowMinimum ==
    pc = "advance" =>
        \A i \in CivIndices :
            civilizations[i].population < 10 =>
                /\ ~civilizations[i].is_alive
                /\ civilizations[i].state = "collapsed"
                /\ civilizations[i].death_cause = "population collapse"

\* a tick ends with a civilization of population below 10 collapsed
C6_Witness ==
    /\ pc = "advance"
    /\ \E i \in CivIndices :
          /\ civilizations[i].population < 10
          /\ civilizations[i].population > 0
          /\ ~civilizations[i].is_alive

(* C7: a collapsed civilization stays in the list and none of its fields   *)
(* (liveness, population, food, morale, tech level, state, territory,      *)
(* relations, death cause) changes in any later step.                      *)
C7_CollapseFreezes ==
    [][/\ Len(civilizations') >= Len(civilizations)
       /\ \A i \in CivIndices :
             ~civilizations[i].is_alive => civilizations'[i] = civilizations[i]]_vars

\* a later tick reaches the population update of a civilization that
\* collapsed in an earlier tick, next to a live one
C7_Witness ==
    /\ pc = "population"
    /\ ~civilizations[idx].is_alive
    /\ civilizations[idx].state = "collapsed"
    /\ \E j \in CivIndices : civilizations[j].is_alive

\* The reference of C9, written from the claim: food-per-capita is
\* food / population, taken as 0 when population is 0
RefFoodPerCapitaBelow(food, population, k) ==
    (population = 0 /\ 0 < k) \/ (population > 0 /\ food < k * population)

RefFoodPerCapitaAbove(food, population, k) ==
    (population = 0 /\ 0 > k) \/ (population > 0 /\ food > k * population)

RefUpdateState(c, nearby_names, expand_draw) ==
    CASE RefFoodPerCapitaBelow(c.food, c.population, 20) -> "hunting"
      [] /\ ~RefFoodPerCapitaBelow(c.food, c.population, 20)
         /\ RefFoodPerCapitaBelow(c.food, c.population, 50) -> "gathering"
      [] /\ ~RefFoodPerCapitaBelow(c.food, c.population, 50)
         /\ c.state # "diplomacy"
         /\ nearby_names \ DOMAIN c.relations # {} -> "diplomacy"
      [] /\ ~RefFoodPerCapitaBelow(c.food, c.population, 50)
         /\ ~(c.state # "diplomacy" /\ nearby_names \ DOMAIN c.relations # {})
         /\ RefFoodPerCapitaAbove(c.food, c.population, 150)
         /\ Len(c.territory) < 30
         /\ (c.personality \in {"expansionist", "aggressive"} \/ expand_draw)
             -> "expanding"
      [] OTHER -> "idle"

NearbyOf(i) == get_nearby_civilizations(i, civilizations, owner)

NearbyNames(i) == {civilizations[NearbyOf(i)[k]].name : k \in 1 .. Len(NearbyOf(i))}

(* C9: for a live civilization update_state yields the state of the        *)
(* priority reference (Hunting, Gathering, Diplomacy, Expanding, Idle) for *)
(* every input and both outcomes of the 0.3 draw.                          *)
C9_UpdateStateMatchesReference ==
    \A i \in CivIndices :
        civilizations[i].is_alive =>
            \A expand_draw \in BOOLEAN :
                update_state(civilizations[i], NearbyOf(i), civilizations, expand_draw)
                    = RefUpdateState(civilizations[i], NearbyNames(i), expand_draw)

\* a live civilization whose prior state is Diplomacy, next to another one,
\* for which the draw decides between Expanding and Idle
C9_Witness ==
    \E i \in CivIndices :
        /\ civilizations[i].is_alive
        /\ civilizations[i].state = "diplomacy"
        /\ NearbyOf(i) # <<>>
        /\ update_state(civilizations[i], NearbyOf(i), civilizations, TRUE) = "expanding"
        /\ update_state(civilizations[i], NearbyOf(i), civilizations, FALSE) = "idle"

\* neighbor m, in the order of the neighbor list, of territory cell k
NeighborAt(terr, k, m) ==
    <<terr[k][1] + NeighborOffsets[m][1], terr[k][2] + NeighborOffsets[m][2]>>

IsCandidate(n) == InGrid(n) /\ is_passable(n) /\ owner[n] = None

Adjacent8(a, b) == a # b /\ Abs(a[1] - b[1]) <= 1 /\ Abs(a[2] - b[2]) <= 1

NoCandidate(terr) ==
    \A k \in 1 .. Len(terr), m \in 1 .. 8 : ~IsCandidate(NeighborAt(terr, k, m))

FirstCandidate(terr, n) ==
    \E k \in 1 .. Len(terr), m \in 1 .. 8 :
        /\ n = NeighborAt(terr, k, m)
        /\ \A k2 \in 1 .. Len(terr), m2 \in 1 .. 8 :
              (k2 < k \/ (k2 = k /\ m2 < m)) => ~IsCandidate(NeighborAt(terr, k2, m2))

C10_Step ==
    IF pc = "civs"
    THEN LET before == civilizations[idx]
             after == civilizations'[idx]
             terr == before.territory
         IN  /\ Len(civilizations') = Len(civilizations)
             /\ \A j \in CivIndices \ {idx} :
                   civilizations'[j].territory = civilizations[j].territory
             /\ \/ /\ after.territory = terr
                   /\ owner' = owner
                   /\ after.state = "expanding" =>
                         /\ NoCandidate(terr)
                         /\ after.food = before.food
                         /\ food_resource' = food_resource
                \/ /\ Len(after.territory) = Len(terr) + 1
                   /\ IsPrefix(terr, after.territory)
                   /\ after.state = "expanding"
                   /\ LET n == after.territory[Len(terr) + 1]
                      IN  /\ IsCandidate(n)
                          /\ \E t \in SeqToSet(terr) : Adjacent8(n, t)
                          /\ FirstCandidate(terr, n)
                          /\ owner' = [owner EXCEPT ![n] = before.name]
                          /\ after.food = before.food - 10
    ELSE \A i \in CivIndices :
             civilizations'[i].territory = civilizations[i].territory

(* C10: a territory changes only in the civilization's own turn of a tick, *)
(* by 0 or 1 coordinates; the claimed cell was passable, unowned, adjacent *)
(* to the territory and the first candidate in territory order then        *)
(* neighbor-list order, at a cost of exactly 10 food; an Expanding action  *)
(* with no candidate changes no owner, no territory and no food.           *)
C10_ExpansionOneCell == [][C10_Step]_vars

\* one civilization has expanded twice, and another took the Expanding
\* action when no candidate was left
C10_Witness ==
    /\ \E i \in CivIndices :
          /\ civilizations[i].state = "expanding"
          /\ civilizations[i].is_alive
          /\ Len(civilizations[i].territory) = 6
          /\ civilizations[i].capital = <<4, 1>>
          /\ NoCandidate(civilizations[i].territory)
    /\ \E j \in CivIndices :
          /\ civilizations[j].food = 1980
          /\ Len(civilizations[j].territory) = 7

(* C11: every civilization's food stockpile is >= 0 in every state,        *)
(* including after the Expanding action, which subtracts 10 unclamped.     *)
C11_FoodStockpileNonNegative ==
    \A i \in CivIndices : civilizations[i].food >= 0

\* a civilization has just paid the 10 food of its first expansion
C11_Witness ==
    /\ pc = "civs"
    /\ idx = 2
    /\ civilizations[1].state = "expanding"
    /\ Len(civilizations[1].territory) = 6
    /\ civilizations[1].food = 1990

Manhattan(a, b) == Abs(a[1] - b[1]) + Abs(a[2] - b[2])

(* C12: no two capitals are at Manhattan distance less than 6, whether the *)
(* position came from the random search or from the caller.                *)
C12_MinimumCapitalDistance ==
    \A i, j \in CivIndices :
        i # j => Manhattan(civilizations[i].capital, civilizations[j].capital) >= 6

C13_Step ==
    pc = "search" =>
        /\ attempts <= 100
        /\ attempts' <= 100
        /\ pc' = "search" => UNCHANGED <<civilizations, owner, chronicle>>
        /\ attempts = 100 =>
              /\ raised' \in {"ValueError", "TypeError"}
              /\ pc' = "ready"
              /\ UNCHANGED <<civilizations, owner, chronicle>>
        /\ raised' # None => attempts = 100

(* C13: the search examines at most 100 candidates; when all of them are   *)
(* rejected the call raises to its caller and the civilizations list, the  *)
(* cells' owners and the chronicle are as they were before the call.       *)
C13_SearchFailureLeavesStateUnchanged == [][C13_Step]_vars

\* a call has failed after 100 rejected candidates, with two civilizations
\* founded before it
C13_Witness ==
    /\ pc = "ready"
    /\ raised = "ValueError"
    /\ attempts = 100
    /\ Len(civilizations) = 2
    /\ chronicle.major_events = 2

\* the fields of civilization i that the step leaves alone
SameBut(i, fields) ==
    \A f \in DOMAIN civilizations[i] \ fields :
        civilizations'[i][f] = civilizations[i][f]

OnlyCivChanges(i) ==
    /\ Len(civilizations') = Len(civilizations)
    /\ \A j \in CivIndices \ {i} : civilizations'[j] = civilizations[j]

C14_Step ==
    LET n == Len(civilizations)
    IN  CASE pc = "ready" ->
               \/ pc' = "ready" /\ current_day' = current_day
                                /\ food_resource' = food_resource
               \/ /\ pc' = IF n > 0 THEN "civs" ELSE "events"
                  /\ idx' = 1
                  /\ \A c \in Coords : food_resource'[c] <= Max(food_resource[c], max_food[c])
                  /\ UNCHANGED <<civilizations, owner, current_day, current_year>>
          [] pc = "civs" ->
               /\ idx \in 1 .. n
               /\ Len(civilizations') = n
               /\ \A j \in CivIndices \ {idx} : SameBut(j, {"relations"})
               /\ ~civilizations[idx].is_alive =>
                     UNCHANGED <<civilizations, food_resource, owner>>
               /\ \E expand_draw \in BOOLEAN :
                     LET st == update_state(civilizations[idx],
                                            get_nearby_civilizations(idx, civilizations, owner),
                                            civilizations, expand_draw)
                     IN  \/ civilizations'[idx].state = st
                         \/ st = "diplomacy" /\ civilizations'[idx].state = "idle"
               /\ <<pc', idx'>> = IF idx < n THEN <<"civs", idx + 1>> ELSE <<"events", 1>>
               /\ UNCHANGED <<current_day, current_year>>
          [] pc = "events" ->
               /\ idx \in 1 .. 5
               /\ <<pc', idx'>> = IF idx < 5 THEN <<"events", idx + 1>>
                                  ELSE IF n > 0 THEN <<"population", 1>>
                                  ELSE <<"advance", 0>>
               /\ UNCHANGED <<owner, current_day, current_year>>
               /\ idx = 1 => /\ civilizations' = civilizations
                             /\ \A c \in Coords : food_resource'[c] <= food_resource[c]
               /\ idx = 2 => /\ civilizations' = civilizations
                             /\ \A c \in Coords : food_resource'[c] >= food_resource[c]
               /\ idx = 3 => /\ food_resource' = food_resource
                             /\ \A i \in CivIndices : SameBut(i, {"population", "morale"})
               /\ idx = 4 => /\ food_resource' = food_resource
                             /\ \A i \in CivIndices : SameBut(i, {"tech_level", "morale"})
               /\ idx = 5 => /\ food_resource' = food_resource
                             /\ \A i \in CivIndices : SameBut(i, {"morale"})
          [] pc = "population" ->
               /\ idx \in 1 .. n
               /\ OnlyCivChanges(idx)
               /\ SameBut(idx, {"population", "morale", "is_alive", "state", "death_cause"})
               /\ <<pc', idx'>> = IF idx < n THEN <<"population", idx + 1>>
                                  ELSE <<"advance", 0>>
               /\ UNCHANGED <<food_resource, owner, current_day, current_year>>
          [] pc = "advance" ->
               /\ current_day' = current_day + 1
               /\ pc' = "ready"
               /\ UNCHANGED <<civilizations, food_resource, owner>>

(* C14: a tick runs regeneration, then one turn (nearby, update_state,     *)
(* execute_action) per civilization in list order, each on the state the   *)
(* previous turn left, then one pass over the events in roster order       *)
(* (drought, harvest, plague, discovery, morale crisis), then one          *)
(* population update per civilization in list order, then day + 1.         *)
C14_TickPhaseOrder == [][C14_Step]_vars

\* the second tick of a run has reached its end after an event fired, with
\* a civilization that was added between the ticks
C14_Witness ==
    /\ pc = "advance"
    /\ fired = 1
    /\ current_day \in {1, 41}
    /\ Len(civilizations) = 3

C15_State ==
    /\ run_pc # "none" =>
          /\ current_day - start_tick <= run_days
          /\ current_day - start_tick >= 0
    /\ run_pc = "returned" => ~running /\ pc = "ready"

C15_Step ==
    /\ (run_pc = "tick" /\ pc = "ready" /\ \A i \in CivIndices : ~civilizations[i].is_alive)
          => /\ run_pc' \in {"tick", "returned"}
             /\ pc' = "ready"
             /\ current_day' = current_day
    /\ run_pc = "returned" =>
          /\ run_pc' = "returned"
          /\ current_day' = current_day
          /\ pc' = "ready"

(* C15: run(days) executes at most days ticks, executes no tick after one  *)
(* at whose end no civilization is alive, always returns, and running is   *)
(* false once it has returned.                                             *)
C15_RunTerminates ==
    /\ []C15_State
    /\ [][C15_Step]_vars
    /\ (run_pc = "loop") ~> (run_pc = "returned")

\* run(2) has returned after one tick, at whose end both civilizations
\* were dead
C15_Witness ==
    /\ run_pc = "returned"
    /\ run_days = 2
    /\ current_day - start_tick = 1
    /\ Len(civilizations) = 2
    /\ \A i \in CivIndices : ~civilizations[i].is_alive
    /\ ~running

C16_State ==
    \A i \in CivIndices :
        civilizations[i].death_cause # None <=> ~civilizations[i].is_alive

C16_Step ==
    \A i \in CivIndices :
        LET before == civilizations[i]
            after == civilizations'[i]
        IN  /\ (before.is_alive /\ ~after.is_alive) =>
                  /\ pc = "population"
                  /\ idx = i
                  /\ after.state = "collapsed"
                  /\ \/ /\ after.population < 10
                        /\ after.death_cause = "population collapse"
                     \/ /\ after.population >= 10
                        /\ after.morale < 10
                        /\ after.death_cause = "civil unrest"
            /\ (pc = "population" /\ idx = i /\ before.is_alive
                   /\ after.population >= 10 /\ after.morale >= 10)
                  => after.is_alive

(* C16: a civilization dies only in its population update, with cause      *)
(* "population collapse" when its population is below 10 at the collapse   *)
(* check and "civil unrest" when its morale is below 10; with population   *)
(* and morale both at least 10 it stays alive; death_cause is set exactly  *)
(* when the civilization is non-live.                                      *)
C16_DeathOnlyAtCollapseCheck == []C16_State /\ [][C16_Step]_vars

\* one civilization has died of population collapse and another of civil
\* unrest
C16_Witness ==
    \E i, j \in CivIndices :
        /\ civilizations[i].death_cause = "population collapse"
        /\ civilizations[j].death_cause = "civil unrest"
        /\ civilizations[j].population >= 10

C17_Step ==
    pc = "population" =>
        LET before == civilizations[idx]
            after == civilizations'[idx]
        IN  before.is_alive =>
              /\ (before.population > 0
                     /\ before.food > 2 * before.population
                     /\ before.morale > 50)
                    => after.population > before.population
              /\ (before.population > 0
                     /\ 10 * before.food >= 3 * before.population)
                    => after.population >= before.population - before.population \div 500

(* C17: a population update of a live civilization with food-per-capita    *)
(* above 2.0 and morale above 50 leaves the population strictly greater,   *)
(* also when the natural-death roll fires; with food-per-capita at least   *)
(* 0.3 the population falls by no more than the natural-death term.        *)
C17_GrowthBeatsNaturalDeath == [][C17_Step]_vars

\* a population of 500 has had 5 births and 1 natural death in one update
C17_Witness ==
    /\ pc = "advance"
    /\ civilizations[1].population = 504
    /\ civilizations[1].is_alive
    /\ civilizations[1].morale > 50
    /\ civilizations[1].food > 2 * 500

(* C18: current_day starts at 0 and never decreases, and current_year is   *)
(* (current_day div 365) + 1 in every state.                               *)
C18_YearDerivedFromDay ==
    /\ current_day = 0
    /\ [](current_year = (current_day \div 365) + 1)
    /\ [][current_day' >= current_day]_vars

\* the year has rolled over twice
C18_Witness ==
    /\ current_day = 730
    /\ current_year = 3

(* C19: the season modifier depends only on the day of the year, lies in   *)
(* -15..15, is -15 on day-of-year 0, does not fall over days 0..181, does  *)
(* not rise over days 182..364, is 15 exactly on days 181..187, and moves  *)
(* by at most 1 from one day to the next, the year's wrap included.        *)
C19_SeasonModifierShape ==
    LET doy == current_day % 365
        m == get_season_modifier(current_day)
        next_m == get_season_modifier(current_day + 1)
    IN  /\ m = get_season_modifier(doy)
        /\ m \in -15 .. 15
        /\ doy = 0 => m = -15
        /\ doy < 181 => next_m >= m
        /\ (doy >= 182 /\ doy < 364) => next_m <= m
        /\ m = 15 <=> doy \in 181 .. 187
        /\ next_m - m \in -1 .. 1

\* the last day of the second year, where the modifier wraps at -15
C19_Witness ==
    /\ current_day = 365 + 364
    /\ get_season_modifier(current_day) = -15
    /\ get_season_modifier(current_day + 1) = -15

\* the step in which a tick runs update_resources
RegenerationStep == pc = "ready" /\ pc' # "ready"

(* C20: regeneration never lowers a cell's food stock, leaves water cells  *)
(* unchanged, and leaves no non-water cell above its ceiling.              *)
C20_RegenerationOnlyAdds ==
    [][RegenerationStep =>
         \A c \in Coords :
             /\ food_resource'[c] >= food_resource[c]
             /\ terrain[c] = "water" => food_resource'[c] = food_resource[c]
             /\ terrain[c] # "water" => food_resource'[c] <= max_food[c]]_vars

(* C20 as amended: regeneration never lowers a stock that is at or below   *)
(* the ceiling and cuts a stock above the ceiling (left by a bountiful     *)
(* harvest) to the ceiling; water cells are unchanged and no non-water     *)
(* cell is left above its ceiling.                                         *)
C20_RegenerationTowardsCeiling ==
    [][RegenerationStep =>
         \A c \in Coords :
             /\ food_resource[c] <= max_food[c] => food_resource'[c] >= food_resource[c]
             /\ (food_resource[c] > max_food[c] /\ terrain[c] # "water")
                   => food_resource'[c] = max_food[c]
             /\ terrain[c] = "water" => food_resource'[c] = food_resource[c]
             /\ terrain[c] # "water" => food_resource'[c] <= max_food[c]]_vars

\* the tick after a bountiful harvest has regenerated: the water cell keeps
\* its bonus, every other cell is back at or below its ceiling
C20_Witness ==
    /\ pc = "civs"
    /\ idx = 1
    /\ fired = 1
    /\ \E c \in Coords :
          terrain[c] = "water" /\ food_resource[c] = max_food[c] + 50
    /\ \A c \in Coords : terrain[c] # "water" => food_resource[c] <= max_food[c]
    /\ \E c \in Coords : owner[c] = None /\ terrain[c] # "water"
                            /\ food_resource[c] = max_food[c]

\* the sum of f over the coordinates of the set cells
RECURSIVE SumOver(_, _)
SumOver(cells, f) ==
    IF cells = {} THEN 0
    ELSE LET c == CHOOSE x \in cells : TRUE
         IN  f[c] + SumOver(cells \ {c}, f)

C21_Step ==
    (pc = "civs" /\ civilizations[idx].is_alive
        /\ civilizations'[idx].state \in {"hunting", "gathering"}) =>
        LET before == civilizations[idx]
            after == civilizations'[idx]
            hunting == after.state = "hunting"
            cap == IF hunting THEN 20 ELSE 12
            divisor == IF hunting THEN 30 ELSE 25
            terr == SeqToSet(before.territory)
            loss == [c \in Coords |-> food_resource[c] - food_resource'[c]]
            total == SumOver(terr, loss)
        IN  /\ \A c \in terr : loss[c] = Min(cap, food_resource[c])
            /\ \A c \in Coords \ terr : loss[c] = 0
            /\ after.food = Max(0, before.food + total
                                     - Max(1, before.population \div divisor))
            /\ after.morale = IF total > 0 THEN Min(100, before.morale + 1)
                              ELSE before.morale
            /\ after.food - before.food <= total
            /\ owner' = owner
            /\ SameBut(idx, {"food", "morale", "state"})

(* C21: a Hunting (cap 20, divisor 30) or Gathering (cap 12, divisor 25)   *)
(* action takes min(cap, stock) from each territory cell and nothing from  *)
(* any other cell, sets food to max(0, food + total taken - max(1,         *)
(* population div divisor)), raises morale by 1 (capped at 100) exactly    *)
(* when the total is positive, and credits no more than the cells lost.    *)
C21_HarvestConservesFood == [][C21_Step]_vars

\* a hunt has emptied five cells that held 1 food each: 10 + 5 - 2 = 13
C21_Witness ==
    /\ pc = "civs"
    /\ idx = 2
    /\ civilizations[1].state = "hunting"
    /\ civilizations[1].population = 60
    /\ civilizations[1].food = 13
    /\ civilizations[1].morale = 56
    /\ \A c \in SeqToSet(civilizations[1].territory) : food_resource[c] = 0
    /\ \E c \in Coords : food_resource[c] > 0

(* C22: in a run of add_civilization and tick no civilization is ever in   *)
(* the Defending state: update_state never yields it and nothing else      *)
(* writes the state but the collapse and the end of a diplomacy round.     *)
C22_NeverDefending ==
    \A i \in CivIndices : civilizations[i].state # "defending"

\* a tick has run the turns of an Expanding, an Idle and a Hunting
\* civilization, two of which border each other on unfriendly terms
C22_Witness ==
    /\ pc = "events"
    /\ \E i, j, k \in CivIndices :
          /\ civilizations[i].state = "expanding"
          /\ civilizations[j].state = "idle"
          /\ civilizations[k].state = "hunting"
          /\ \E n \in DOMAIN civilizations[j].relations :
                civilizations[j].relations[n] < 50
          /\ NearbyOf(j) # <<>>

\* the step in which the drought, first of the roster, fires
DroughtStep == pc = "events" /\ idx = 1 /\ fired' = fired + 1

(* C23: a drought centered at (cx, cy) lowers the food of every grid cell  *)
(* with |x - cx| <= 3 and |y - cy| <= 3 by exactly min(food, 30) and       *)
(* leaves every other cell's food, every owner and every civilization      *)
(* unchanged.                                                              *)
C23_DroughtRegion ==
    [][DroughtStep =>
         /\ \E cx \in 0 .. width - 1, cy \in 0 .. height - 1 :
               \A c \in Coords :
                   IF Abs(c[1] - cx) <= 3 /\ Abs(c[2] - cy) <= 3
                   THEN food_resource'[c] = food_resource[c] - Min(food_resource[c], 30)
                   ELSE food_resource'[c] = food_resource[c]
         /\ owner' = owner
         /\ civilizations' = civilizations]_vars

\* a drought around (0, 0) has emptied the mountain cell, taken 30 from a
\* plains cell and left the cells of column 4 outside its region
C23_Witness ==
    /\ pc = "events"
    /\ idx = 2
    /\ fired = 1
    /\ food_resource[<<0, 2>>] = 0
    /\ \E c \in Coords : /\ max_food[c] > 30
                         /\ food_resource[c] = max_food[c] - 30
    /\ \A c \in Coords : c[1] = 4 => food_resource[c] = max_food[c]
    /\ \E c \in Coords : c[1] = 3 /\ food_resource[c] < max_food[c]

\* the step in which the plague, third of the roster, fires
PlagueStep == pc = "events" /\ idx = 3 /\ fired' = fired + 1

C24_Step ==
    PlagueStep =>
        /\ UNCHANGED <<food_resource, owner>>
        /\ Len(civilizations') = Len(civilizations)
        /\ IF \A i \in CivIndices : ~civilizations[i].is_alive
           THEN UNCHANGED <<civilizations, chronicle>>
           ELSE \E target \in CivIndices :
                   LET before == civilizations[target]
                       after == civilizations'[target]
                   IN  /\ before.is_alive
                       /\ after.population <= before.population
                       /\ 10 * (before.population - after.population)
                              <= 3 * before.population
                       /\ after.population >= 10
                       /\ after.morale = Max(0, before.morale - 20)
                       /\ SameBut(target, {"population", "morale"})
                       /\ OnlyCivChanges(target)

(* C24: a plague that fires in a run hits one live civilization: its       *)
(* population does not rise, falls by at most 30% of what it was and stays *)
(* >= 10, its morale falls by 20 floored at 0, no other civilization       *)
(* changes; with no live civilization the plague changes nothing.          *)
C24_PlagueEffect == [][C24_Step]_vars

\* a plague has taken 149 of 500 people and 20 of 61 morale from one
\* civilization and left the other as its hunt left it
C24_Witness ==
    /\ pc = "events"
    /\ idx = 4
    /\ fired = 1
    /\ civilizations[2].population = 351
    /\ civilizations[2].morale = 41
    /\ civilizations[2].is_alive
    /\ civilizations[1].population = 60
    /\ civilizations[1].morale = 56

\* some cell of the territory of civilization i has an 8-directional
\* neighbor owned by civilization j
Borders(i, j) ==
    \E c \in SeqToSet(civilizations[i].territory) :
        \E n \in Coords :
            Adjacent8(c, n) /\ owner[n] = civilizations[j].name

\* the result holds no civilization twice
NearbyDistinct(i) ==
    \A k, l \in 1 .. Len(NearbyOf(i)) : k # l => NearbyOf(i)[k] # NearbyOf(i)[l]

(* C25: get_nearby_civilizations(A) holds exactly the other civilizations  *)
(* B, each once and never A, such that a cell of A's territory has an      *)
(* 8-directional neighbor owned by B.                                      *)
C25_NearbyIsBordering ==
    \A i \in CivIndices :
        /\ SeqToSet(NearbyOf(i)) = {j \in CivIndices \ {i} : Borders(i, j)}
        /\ NearbyDistinct(i)

(* C25 as amended: get_nearby_civilizations(A) holds exactly the other     *)
(* live civilizations B, each once and never A, such that a cell of A's    *)
(* territory has an 8-directional neighbor owned by B; a collapsed         *)
(* civilization is never in the result, though it keeps its cells.         *)
C25_NearbyIsLiveBordering ==
    \A i \in CivIndices :
        /\ SeqToSet(NearbyOf(i)) =
              {j \in CivIndices \ {i} : civilizations[j].is_alive /\ Borders(i, j)}
        /\ NearbyDistinct(i)

\* a tick reaches the turn of a live civilization that borders a collapsed
\* one: its nearby list is empty, the collapsed one's list holds it
C25_Witness ==
    /\ pc = "civs"
    /\ idx = 2
    /\ ~civilizations[1].is_alive
    /\ civilizations[2].is_alive
    /\ Borders(2, 1)
    /\ NearbyOf(2) = <<>>
    /\ NearbyOf(1) = <<2>>

IsNearby(i, j) == j \in SeqToSet(NearbyOf(i))

(* C26: in every reachable state, for two live civilizations A and B, B is *)
(* in get_nearby_civilizations(A) if and only if A is in                   *)
(* get_nearby_civilizations(B).                                            *)
C26_NearbySymmetric ==
    \A i, j \in CivIndices :
        (i # j /\ civilizations[i].is_alive /\ civilizations[j].is_alive)
            => (IsNearby(i, j) <=> IsNearby(j, i))

\* three live civilizations after their turns: one is nearby to both others
\* and they to it, the two others are not nearby to each other
C26_Witness ==
    /\ Len(civilizations) = 3
    /\ \A i \in CivIndices : civilizations[i].is_alive
    /\ IsNearby(3, 1) /\ IsNearby(1, 3)
    /\ IsNearby(3, 2) /\ IsNearby(2, 3)
    /\ ~IsNearby(1, 2) /\ ~IsNearby(2, 1)
    /\ pc = "events"
    /\ RelationKnown(civilizations[1], civilizations[3])

(* C27: every civilization's morale is within 0..100 in every reachable    *)
(* state, after the Idle, Hunting and Gathering actions, starvation and    *)
(* the plague, discovery and morale-crisis events; the Defending action    *)
(* applied in any reachable state leaves it there too.                     *)
C27_MoraleWithinBounds ==
    \A i \in CivIndices :
        /\ civilizations[i].morale \in 0 .. 100
        /\ action_defend(i, civilizations, food_resource, owner).civs[i].morale
               \in 0 .. 100

\* starvation has floored the morale of one civilization at 0 while the
\* hunt of the other has capped its morale at 100
C27_Witness ==
    /\ pc = "population"
    /\ idx = 2
    /\ civilizations[1].morale = 0
    /\ civilizations[1].population = 49
    /\ civilizations[1].is_alive
    /\ civilizations[2].morale = 100
    /\ civilizations[2].state = "hunting"
    /\ action_defend(1, civilizations, food_resource, owner).civs[1].morale = 0

(* C28: no water or mountain cell has an owner in any reachable state:     *)
(* neither the 3x3 claim of a founding nor an expansion takes an           *)
(* impassable cell.                                                        *)
C28_ImpassableNeverOwned ==
    \A c \in Coords : terrain[c] \in {"water", "mountain"} => owner[c] = None

\* a civilization was founded with its capital on the water cell, every
\* passable cell is owned, and a civilization has tried to expand with only
\* the water and the mountain cell left unowned
C28_Witness ==
    /\ Len(civilizations) = 3
    /\ civilizations[3].capital = <<2, 1>>
    /\ terrain[<<2, 1>>] = "water"
    /\ WorldFull
    /\ owner[<<2, 1>>] = None
    /\ owner[<<0, 2>>] = None
    /\ \E i \in CivIndices :
          /\ civilizations[i].state = "expanding"
          /\ civilizations[i].is_alive

(* C29: in a run whose civilizations come from add_civilization every      *)
(* population is >= 10 in every reachable state, so no civilization dies   *)
(* of "population collapse": a collapsed civilization died of "civil       *)
(* unrest".                                                                *)
C29_PopulationNeverBelowMinimum ==
    \A i \in CivIndices :
        /\ civilizations[i].population >= 10
        /\ civilizations[i].death_cause \in {None, "civil unrest"}
        /\ ~civilizations[i].is_alive => civilizations[i].death_cause = "civil unrest"

\* a tick has ended in which starvation took 1 of 50 people and none of
\* 10, and the larger civilization then died of civil unrest
C29_Witness ==
    /\ pc = "advance"
    /\ current_day = 0
    /\ civilizations[1].population = 49
    /\ ~civilizations[1].is_alive
    /\ civilizations[1].death_cause = "civil unrest"
    /\ civilizations[2].population = 10
    /\ civilizations[2].morale = 97
    /\ civilizations[2].is_alive
    /\ FpcBelowTenths(civilizations[2], 3)

(* C30: every territory holds at most 30 coordinates in every reachable    *)
(* state: a founding claims at most 9 cells, and the Expanding state is    *)
(* entered only with fewer than 30 cells and adds at most one.             *)
C30_TerritoryAtMostThirty ==
    /\ [](\A i \in CivIndices : Len(civilizations[i].territory) <= 30)
    /\ [][\A i \in CivIndices :
             Len(civilizations'[i].territory) > Len(civilizations[i].territory)
                 => /\ Len(civilizations[i].territory) < 30
                    /\ Len(civilizations'[i].territory)
                           = Len(civilizations[i].territory) + 1
                    /\ civilizations'[i].state = "expanding"]_vars
    /\ [][\A i \in 1 .. Len(civilizations') :
             i > Len(civilizations) => Len(civilizations'[i].territory) <= 9]_vars

\* a well-fed expansionist civilization holds 30 cells and has gone Idle in
\* a tick although unowned passable cells border its territory
C30_Witness ==
    /\ pc = "events"
    /\ Len(civilizations[1].territory) = 30
    /\ civilizations[1].state = "idle"
    /\ civilizations[1].is_alive
    /\ civilizations[1].personality = "expansionist"
    /\ FpcAbove(civilizations[1], FOOD_EXCESS)
    /\ ~NoCandidate(civilizations[1].territory)

\* the relations of civilization j are those of before plus one entry, for n
OneNewRelation(before, after, n) ==
    /\ n \notin DOMAIN before.relations
    /\ DOMAIN after.relations = DOMAIN before.relations \cup {n}
    /\ \A m \in DOMAIN before.relations : after.relations[m] = before.relations[m]

\* the turn of live civilization i leaves update_state with Diplomacy
EntersDiplomacy(i) ==
    /\ pc = "civs" /\ idx = i
    /\ civilizations[i].is_alive
    /\ update_state(civilizations[i], NearbyOf(i), civilizations, FALSE) = "diplomacy"

(* C31: in the turn of a civilization that update_state leaves in           *)
(* Diplomacy, the action gives it and exactly one nearby civilization a new *)
(* relation to each other, with one score, changes no other relation and    *)
(* leaves it in Diplomacy (the exit to Idle is not taken); its state before *)
(* that turn was not Diplomacy, and a live civilization in Diplomacy keeps   *)
(* that state until its next turn, so update_state never yields Diplomacy   *)
(* for one civilization in two consecutive ticks.                           *)
C31_Step ==
    \A i \in CivIndices :
        IF EntersDiplomacy(i)
        THEN /\ civilizations[i].state # "diplomacy"
             /\ civilizations'[i].state = "diplomacy"
             /\ \E k \in 1 .. Len(NearbyOf(i)) :
                    LET j == NearbyOf(i)[k]
                    IN  /\ OneNewRelation(civilizations[i], civilizations'[i],
                                          civilizations[j].name)
                        /\ OneNewRelation(civilizations[j], civilizations'[j],
                                          civilizations[i].name)
                        /\ civilizations'[i].relations[civilizations[j].name]
                               = civilizations'[j].relations[civilizations[i].name]
                        /\ \A m \in CivIndices \ {i, j} :
                               civilizations'[m].relations = civilizations[m].relations
        ELSE /\ (pc = "civs" /\ idx = i /\ civilizations[i].is_alive)
                    => civilizations'[i].state # "diplomacy"
             /\ (~(pc = "civs" /\ idx = i)
                    /\ civilizations[i].state = "diplomacy"
                    /\ civilizations'[i].is_alive)
                    => civilizations'[i].state = "diplomacy"

C31_DiplomacyMakesOneContact == [][C31_Step]_vars

\* the turn of a live civilization comes in the tick after its first
\* contact: it is still in Diplomacy, fed above FOOD_LOW and next to another
\* civilization it has no relation with, and it holds one relation
C31_Witness ==
    \E i \in CivIndices :
        /\ pc = "civs" /\ idx = i
        /\ civilizations[i].is_alive
        /\ civilizations[i].state = "diplomacy"
        /\ ~FpcBelow(civilizations[i], FOOD_LOW)
        /\ Cardinality(DOMAIN civilizations[i].relations) = 1
        /\ NearbyNames(i) \ DOMAIN civilizations[i].relations # {}

\* the coordinates of the 5x3 world of Layout
LayoutCoords == {<<x, y>> : x \in 0 .. 4, y \in 0 .. 2}

\* nothing takes food from a cell any more: nobody is there to harvest and
\* the random events have had their turn
RegenerationQuiet == civilizations = <<>> /\ fired = MaxEvents

\* ticks enough to bring any stock back to a ceiling of 10 or more, half of
\* the days of the specification: the harsh season lasts 36 days, and a
\* tenth of the ceiling per tick takes ten ticks
RecoveryTicks == MaxRegenDay \div 2

\* cell c is below its ceiling, undisturbed from now on, and the caller will
\* call tick() RecoveryTicks more times
RegenerationDue(c) ==
    /\ terrain[c] # "water"
    /\ food_resource[c] < max_food[c]
    /\ RegenerationQuiet
    /\ pc = "ready"
    /\ current_day + RecoveryTicks <= MaxRegenDay

(* C32: every non-water cell whose food is below its ceiling and that is   *)
(* neither harvested nor hit by a drought any more has food equal to or    *)
(* above its ceiling after finitely many further ticks, whatever ceiling   *)
(* from 5 to 150 it was created with.                                      *)
C32_RegenerationReachesCeiling ==
    \A c \in LayoutCoords :
        RegenerationDue(c) ~> (food_resource[c] >= max_food[c])

\* the same for the cells whose ceiling is 10 or more
C32_ReachesCeilingFromTen ==
    \A c \in LayoutCoords :
        (RegenerationDue(c) /\ max_food[c] >= 10)
            ~> (food_resource[c] >= max_food[c])

\* regeneration adds nothing to a cell whose ceiling is below 10, in the
\* harsh season and out of it
C32_NoGrowthBelowTen ==
    [][\A c \in Coords :
          (RegenerationStep /\ max_food[c] < 10 /\ food_resource[c] <= max_food[c])
              => food_resource'[c] = food_resource[c]]_vars

\* a desert cell of ceiling 9 that a drought emptied is still empty two
\* weeks of mild season later
C32_Witness ==
    \E c \in Coords :
        /\ terrain[c] = "desert"
        /\ max_food[c] = 9
        /\ food_resource[c] = 0
        /\ RegenerationQuiet
        /\ current_day >= 55

\* the ticks within which a civilization next to both others has met them:
\* a tick that skips the rule, then for each of the two a tick with a
\* contact and a tick that skips the rule
ContactTicks == 2 * (Len(ContactCapitals) - 1)

\* live civilizations i and j border each other without a relation, between
\* two ticks, and the caller will call tick() ContactTicks more times
ContactDue(i, j) ==
    /\ pc = "ready"
    /\ current_day + ContactTicks <= ContactStartDay + MaxContactTicks
    /\ civilizations[i].is_alive
    /\ civilizations[j].is_alive
    /\ Borders(i, j)
    /\ ~RelationKnown(civilizations[i], civilizations[j])

(* C33: with a fixed list of civilizations, when live civilizations A and  *)
(* B have adjacent territories and no relation, then after finitely many   *)
(* ticks A and B have a relation, or one of them has died, or A's food per *)
(* capita has been below FOOD_LOW (50).                                    *)
C33_FirstContactHappens ==
    \A i, j \in 1 .. Len(ContactCapitals) :
        (i # j) =>
            (ContactDue(i, j)
                ~> \/ RelationKnown(civilizations[i], civilizations[j])
                   \/ ~civilizations[i].is_alive
                   \/ ~civilizations[j].is_alive
                   \/ FpcBelow(civilizations[i], FOOD_LOW))

\* the fairness of SpecContact is weak fairness of NextContact: a step of
\* NextContact moves the position, and one is possible exactly when
\* ContactProgress is
C33_ProgressIsNext ==
    [][NextContact /\ <<pc', idx'>> # <<pc, idx>>
       /\ (pc # "ready" \/ current_day < ContactStartDay + MaxContactTicks)]_vars

\* the third tick: A, which met B in the first tick and skipped the rule in
\* the second, has met C, which has been too hungry to ask for contact
C33_Witness ==
    /\ Len(civilizations) = 3
    /\ current_day = ContactStartDay + 2
    /\ pc = "civs" /\ idx = 2
    /\ civilizations[1].state = "diplomacy"
    /\ DOMAIN civilizations[1].relations = {civilizations[2].name, civilizations[3].name}
    /\ DOMAIN civilizations[3].relations = {civilizations[1].name}
    /\ civilizations[3].state \in {"hunting", "gathering"}
    /\ civilizations[3].is_alive
    /\ ~FpcBelow(civilizations[1], FOOD_LOW)

====
